---- MODULE Spec2Model ----
(***************************************************************************)
(* A model of the connection cache (utils/couchbase/connectToCouchbase.ts),*)
(* the retry helper (withRetry), the chat history store                    *)
(* (CouchbaseChatMessageHistory) and the memory node's supplyData of       *)
(* n8n-nodes-couchbase.                                                    *)
(*                                                                         *)
(* Every async function is cut at its await points: one action per         *)
(* synchronous stretch of code.  The connection cache, withRetry and the   *)
(* history store share no state, so each has a specification of its own    *)
(* (Spec, RetrySpec, HistSpec) that leaves the variables of the others     *)
(* alone; NodeSpec puts the cache and the store together as supplyData     *)
(* does.                                                                   *)
(***************************************************************************)
EXTENDS Integers, Sequences, FiniteSets, TLC

VARIABLES
    \* ---- connectToCouchbase.ts: module-level state (lines 20-27)
    clusterInstance,      \* the cached Cluster handle, or Undefined
    cachedCredentials,    \* {connectionString, username, password}, {} = NoCredentials
    idleTimeoutId,        \* the timer object of the last setTimeout, or Undefined
    lastActivityTime,     \* Date.now() of the last resetIdleTimeout, 0 = never / closed
    \* ---- the environment of the connection cache
    now,                  \* Date.now()
    pendingTimers,        \* the timers setTimeout has scheduled and that neither fired nor were cleared
    pc,                   \* where each execution context is suspended
    credentials,          \* the tuple getCredentials resolved to, per context (line 92)
    nextHandle,           \* the number of handles connect() has resolved to, plus one
    nextTimer,            \* the number of timers setTimeout has returned, plus one
    callsLeft,            \* how many more API calls the callers make
    trace,                \* history: what the contexts did, in order
    \* ---- withRetry: its arguments
    operation,            \* what the i-th call of operation() settles to
    options,              \* the RetryOptions passed
    \* ---- createRetryFunction: the two objects it merges (lines 375-380)
    defaultOptions,       \* the defaultOptions the retry function was created with
    callOptions,          \* the options a call passes
    \* ---- withRetry: its locals (lines 320-327, 329)
    maxAttempts,
    delayMs,
    backoffMultiplier,
    isRetryable,          \* the error names the predicate accepts
    lastError,
    attempt,
    \* ---- withRetry: its environment
    retryPc,              \* where withRetry is suspended, or how it ended
    operationCalls,       \* how many times operation() was called
    sleeps,               \* the delays slept, in order
    outcome,              \* the value returned or the error thrown
    \* ---- CouchbaseChatMessageHistory and the collection it writes to
    store,                \* the collection: the document under each key, or NoDocument
    today,                \* the clock new Date() reads
    histPc,               \* where each caller of the history is suspended
    histCall,             \* the call a caller is in: its session and its messages
    existingMessages,     \* line 154, per caller
    histCallsLeft,        \* how many more calls the callers make
    histTrace,            \* history: calls, storage operations and results, in order
    \* ---- MemoryCouchbaseChat.supplyData (sessionHelpers.ts lines 105-165)
    nodeParameters,       \* what getNodeParameter returns (lines 106-119 and line 8)
    supplyData            \* where supplyData is suspended, or how it ended

connVars == <<clusterInstance, cachedCredentials, idleTimeoutId, lastActivityTime,
              now, pendingTimers, pc, credentials, nextHandle, nextTimer,
              callsLeft, trace>>

retryVars == <<operation, options, defaultOptions, callOptions, maxAttempts, delayMs, backoffMultiplier, isRetryable,
               lastError, attempt, retryPc, operationCalls, sleeps, outcome>>

histVars == <<store, today, histPc, histCall, existingMessages, histCallsLeft, histTrace>>

nodeVars == <<nodeParameters, supplyData>>

vars == <<connVars, retryVars, histVars, nodeVars>>

\* What no step of the connection cache touches.
otherThanConn == <<retryVars, histVars, nodeVars>>
\* What no step of withRetry touches.
otherThanRetry == <<connVars, histVars, nodeVars>>
\* What no step of the history store touches.
otherThanHist == <<connVars, retryVars, nodeVars>>

-----------------------------------------------------------------------------
(* Bounds *)

\* API calls (connectToCouchbase, closeConnection) the callers make in one run.
MaxCalls == 3
\* The clock advances in steps of TickMs.
TickMs == 15000
\* With no timer waiting, the clock stops at MaxTime.
MaxTime == 15000
\* The largest maxAttempts passed to withRetry.
MaxTries == 3
\* Calls of getMessages, addMessages and clear the callers make in one run.
MaxHistCalls == 3
\* The longest batch passed to addMessages.
MaxBatch == 2
\* addMessages calls made in one run of overlapping writers.
MaxOverlap == 2
\* API calls made in one run of two callers whose calls and timer callbacks
\* overlap.
MaxAsyncCalls == 2
\* connectToCouchbase calls made in one run checked for eventual eviction.
MaxLiveCalls == 2

-----------------------------------------------------------------------------
(* connectToCouchbase.ts *)

CONNECTION_IDLE_TIMEOUT_MS == 30000

\* JavaScript's undefined, for a handle, a timer or a credential field.
Undefined == 0

\* cachedCredentials = {}
NoCredentials ==
    [connectionString |-> Undefined, username |-> Undefined, password |-> Undefined]

\* The tuples the credential supplier may return: a base tuple and the tuples
\* that differ from it in the username, in the password or in the connection
\* string, which the last one lacks
\* (credentials.couchbaseConnectionString undefined, line 93).
CredentialTuples ==
    { [connectionString |-> 1, username |-> 1, password |-> 1],
      [connectionString |-> 1, username |-> 2, password |-> 1],
      [connectionString |-> 1, username |-> 1, password |-> 2],
      [connectionString |-> Undefined, username |-> 1, password |-> 1] }

\* The sequential caller of the API.
Callers == {1}
\* The context a timer's callback runs in.
TimerCtx(t) == 100 + t
\* The callers whose calls may overlap.
ConcCallers == {1, 2}
Contexts == Callers \cup ConcCallers \cup { TimerCtx(t) : t \in 1..(MaxCalls + 1) }

\* error instanceof class, by the names of the classes: every Couchbase error
\* class extends CouchbaseError, which extends Error
\* (tests/__mocks__/couchbase.ts).
InstanceOf(name, class) ==
    \/ name = class
    \/ class = "Error"
    \/ class = "CouchbaseError" /\ name # "Error"

\* The errors connect() may reject with: their class and their message.
ConnectErrors ==
    { [name |-> "UnambiguousTimeoutError", message |-> "Unambiguous timeout"],
      [name |-> "AuthenticationFailureError", message |-> "Authentication failed"],
      [name |-> "TimeoutError", message |-> "Timeout"],
      [name |-> "Error", message |-> "Connection refused"] }
NoCause == [name |-> "none", message |-> ""]

\* An error thrown to a caller; message lists the parts the message string is
\* put together from.
NoThrow == [name |-> "none", message |-> << >>, description |-> ""]
\* new NodeOperationError(node, message, {description})
NodeOperationError(message, description) ==
    [name |-> "NodeOperationError", message |-> message, description |-> description]
\* line 155: new Error('Cluster connection is not available.')
UnavailableError ==
    [name |-> "Error", message |-> << "Cluster connection is not available." >>,
     description |-> ""]

\* The timeout hint given for every timeout, ambiguous or not.
makeConnectionErrorDescriptionAnyTimeout(error) ==
    IF error.name \in {"UnambiguousTimeoutError", "TimeoutError"}
    THEN "Please ensure the database exists, is turned on, and the connection string is correct."
    ELSE IF InstanceOf(error.name, "AuthenticationFailureError")
         THEN "Please check your username and password."
         ELSE ""
\* makeConnectionErrorDescription(error), lines 164-173
makeConnectionErrorDescription(error) ==
    IF InstanceOf(error.name, "UnambiguousTimeoutError")
    THEN "Please ensure the database exists, is turned on, and the connection string is correct."
    ELSE IF InstanceOf(error.name, "AuthenticationFailureError")
         THEN "Please check your username and password."
         ELSE ""

\* lines 144-150: the error thrown for a connect() that rejected with cause.
connectionError(cause) ==
    NodeOperationError(<< "Could not connect to database: ", cause.message, "." >>,
                       makeConnectionErrorDescription(cause))

\* One entry of the history: what context ctx did.  cred is the tuple of an
\* "acquire" (the one getCredentials resolved to) or a "connect" (its
\* arguments); cached and h of an "acquire" are cachedCredentials and
\* clusterInstance as the call found them; h is otherwise the handle closed
\* ("close"), resolved to ("connectSettled") or returned ("return"); ok tells
\* whether a promise resolved (TRUE) or rejected.
\* cause of a rejected "connectSettled" is the error connect() rejected with;
\* error of a "throw" or "throwUnavailable" is the error thrown to the caller.
Ev(ev, ctx, cred, h, ok) ==
    [ev |-> ev, ctx |-> ctx, cred |-> cred, cached |-> NoCredentials, h |-> h, ok |-> ok,
     cause |-> NoCause, error |-> NoThrow]
EvAcquire(ctx, cred) ==
    [ev |-> "acquire", ctx |-> ctx, cred |-> cred, cached |-> cachedCredentials,
     h |-> clusterInstance, ok |-> TRUE, cause |-> NoCause, error |-> NoThrow]

\* lines 98-102
credentialsChangedNever(cred) == clusterInstance = Undefined
credentialsChangedAlways(cred) == TRUE
credentialsChanged(cred) ==
    \/ clusterInstance = Undefined
    \/ cred.connectionString # cachedCredentials.connectionString
    \/ cred.username # cachedCredentials.username
    \/ cred.password # cachedCredentials.password

\* clearTimeout(id): a timer that fired or was cleared already is not pending.
clearTimeout(id) == { t \in pendingTimers : t.id # id }

\* resetIdleTimeout() without lines 33-35: the old timer is not cleared.
resetIdleTimeoutKeepsOld ==
    /\ lastActivityTime' = now
    /\ idleTimeoutId' = nextTimer
    /\ pendingTimers' =
          pendingTimers \cup { [id |-> nextTimer, due |-> now + CONNECTION_IDLE_TIMEOUT_MS] }
    /\ nextTimer' = nextTimer + 1
\* resetIdleTimeout(), lines 32-40
resetIdleTimeout ==
    /\ lastActivityTime' = now
    /\ idleTimeoutId' = nextTimer
    /\ pendingTimers' =
          (IF idleTimeoutId # Undefined THEN clearTimeout(idleTimeoutId) ELSE pendingTimers)
          \cup { [id |-> nextTimer, due |-> now + CONNECTION_IDLE_TIMEOUT_MS] }
    /\ nextTimer' = nextTimer + 1

\* hasActiveConnection(), lines 76-78
hasActiveConnection == clusterInstance # Undefined

\* getConnectionIdleTime(), lines 68-71
getConnectionIdleTime ==
    IF lastActivityTime = 0 THEN 0 ELSE now - lastActivityTime

\* ---- connectToCouchbase(context), lines 88-162

\* Each step of connectToCouchbase is given twice: what it does to the module
\* and its environment (...Step), and that step made by a caller of the API,
\* which leaves everything else alone.

\* line 92: the call starts and suspends in getCredentials.
AcquireCallStep(p) ==
    /\ pc[p] = "idle"
    /\ callsLeft > 0
    /\ callsLeft' = callsLeft - 1
    /\ pc' = [pc EXCEPT ![p] = "getCredentials"]
    /\ UNCHANGED <<clusterInstance, cachedCredentials, idleTimeoutId, lastActivityTime,
                   now, pendingTimers, credentials, nextHandle, nextTimer, trace>>
AcquireCall(p) ==
    /\ AcquireCallStep(p)
    /\ UNCHANGED otherThanConn

\* lines 92-129 and 154-161: getCredentials resolves to cred; the tuple is
\* compared with the cached one.  Unchanged: the timer is reset and the cached
\* handle returned.  Changed with a handle cached: its close() is called.
\* Changed with none cached: connect() is called.
AcquireCheckStep(p) ==
    /\ pc[p] = "getCredentials"
    /\ \E cred \in CredentialTuples :
         /\ credentials' = [credentials EXCEPT ![p] = cred]
         /\ IF credentialsChanged(cred)
            THEN IF clusterInstance # Undefined
                 THEN /\ pc' = [pc EXCEPT ![p] = "awaitClose"]
                      /\ trace' = trace \o << EvAcquire(p, cred),
                                              Ev("close", p, NoCredentials, clusterInstance, TRUE) >>
                      /\ UNCHANGED <<clusterInstance, cachedCredentials, idleTimeoutId,
                                     lastActivityTime, pendingTimers, nextTimer>>
                 ELSE /\ pc' = [pc EXCEPT ![p] = "awaitConnect"]
                      /\ trace' = trace \o << EvAcquire(p, cred),
                                              Ev("connect", p, cred, Undefined, TRUE) >>
                      /\ UNCHANGED <<clusterInstance, cachedCredentials, idleTimeoutId,
                                     lastActivityTime, pendingTimers, nextTimer>>
            ELSE IF clusterInstance = Undefined
                 THEN \* line 155
                      /\ pc' = [pc EXCEPT ![p] = "idle"]
                      /\ trace' = trace \o << EvAcquire(p, cred),
                                              [Ev("throwUnavailable", p, NoCredentials, Undefined, FALSE)
                                                EXCEPT !.error = UnavailableError] >>
                      /\ UNCHANGED <<clusterInstance, cachedCredentials, idleTimeoutId,
                                     lastActivityTime, pendingTimers, nextTimer>>
                 ELSE /\ resetIdleTimeout
                      /\ pc' = [pc EXCEPT ![p] = "idle"]
                      /\ trace' = trace \o << EvAcquire(p, cred),
                                              Ev("return", p, NoCredentials, clusterInstance, TRUE) >>
                      /\ UNCHANGED <<clusterInstance, cachedCredentials>>
    /\ UNCHANGED <<now, nextHandle, callsLeft>>
AcquireCheck(p) ==
    /\ AcquireCheckStep(p)
    /\ UNCHANGED otherThanConn

\* A rejected close() ends the call: the error is thrown on to the caller.
AcquireCloseSettledThrows(p) ==
    /\ pc[p] = "awaitClose"
    /\ \E ok \in BOOLEAN :
         IF ok
         THEN /\ trace' = trace \o << Ev("closeSettled", p, NoCredentials, Undefined, ok),
                                      Ev("connect", p, credentials[p], Undefined, TRUE) >>
              /\ pc' = [pc EXCEPT ![p] = "awaitConnect"]
         ELSE /\ trace' = trace \o << Ev("closeSettled", p, NoCredentials, Undefined, ok),
                                      Ev("throw", p, NoCredentials, Undefined, FALSE) >>
              /\ pc' = [pc EXCEPT ![p] = "idle"]
    /\ clusterInstance' = Undefined
    /\ UNCHANGED <<cachedCredentials, idleTimeoutId, lastActivityTime, now,
                   pendingTimers, credentials, nextHandle, nextTimer, callsLeft>>
    /\ UNCHANGED otherThanConn

\* connect() called with the tuple that was cached instead of the new one.
AcquireCloseSettledStale(p) ==
    /\ pc[p] = "awaitClose"
    /\ \E ok \in BOOLEAN :
         trace' = trace \o << Ev("closeSettled", p, NoCredentials, Undefined, ok),
                              Ev("connect", p, cachedCredentials, Undefined, TRUE) >>
    /\ clusterInstance' = Undefined
    /\ pc' = [pc EXCEPT ![p] = "awaitConnect"]
    /\ UNCHANGED <<cachedCredentials, idleTimeoutId, lastActivityTime, now,
                   pendingTimers, credentials, nextHandle, nextTimer, callsLeft>>
    /\ UNCHANGED otherThanConn

\* lines 109-129: close() of the old handle settles, resolved (ok) or rejected;
\* either way the handle is dropped, and connect() is called with the new tuple.
AcquireCloseSettled(p) ==
    /\ pc[p] = "awaitClose"
    /\ \E ok \in BOOLEAN :
         trace' = trace \o << Ev("closeSettled", p, NoCredentials, Undefined, ok),
                              Ev("connect", p, credentials[p], Undefined, TRUE) >>
    /\ clusterInstance' = Undefined
    /\ pc' = [pc EXCEPT ![p] = "awaitConnect"]
    /\ UNCHANGED <<cachedCredentials, idleTimeoutId, lastActivityTime, now,
                   pendingTimers, credentials, nextHandle, nextTimer, callsLeft>>
    /\ UNCHANGED otherThanConn

\* lines 123-138 and 154-161: connect() resolves to a new handle.
AcquireConnectedStep(p) ==
    /\ pc[p] = "awaitConnect"
    /\ clusterInstance' = nextHandle
    /\ nextHandle' = nextHandle + 1
    /\ cachedCredentials' = credentials[p]
    /\ pc' = [pc EXCEPT ![p] = "idle"]
    /\ IF clusterInstance' = Undefined
       THEN \* line 155
            /\ trace' = trace \o << Ev("connectSettled", p, NoCredentials, nextHandle, TRUE),
                                    [Ev("throwUnavailable", p, NoCredentials, Undefined, FALSE)
                                                EXCEPT !.error = UnavailableError] >>
            /\ UNCHANGED <<idleTimeoutId, lastActivityTime, pendingTimers, nextTimer>>
       ELSE /\ resetIdleTimeout
            /\ trace' = trace \o << Ev("connectSettled", p, NoCredentials, nextHandle, TRUE),
                                    Ev("return", p, NoCredentials, clusterInstance', TRUE) >>
    /\ UNCHANGED <<now, credentials, callsLeft>>
AcquireConnected(p) ==
    /\ AcquireConnectedStep(p)
    /\ UNCHANGED otherThanConn

\* A catch block that logs the failure and falls through to the return.
AcquireConnectFailedSwallowed(p) ==
    /\ pc[p] = "awaitConnect"
    /\ clusterInstance' = Undefined
    /\ cachedCredentials' = NoCredentials
    /\ pc' = [pc EXCEPT ![p] = "idle"]
    /\ trace' = trace \o << Ev("connectSettled", p, NoCredentials, Undefined, FALSE),
                         Ev("return", p, NoCredentials, Undefined, TRUE) >>
    /\ UNCHANGED <<idleTimeoutId, lastActivityTime, now, pendingTimers, credentials,
                   nextHandle, nextTimer, callsLeft>>
    /\ UNCHANGED otherThanConn

\* A catch block that empties the cache and falls through to the final check
\* of line 154.
AcquireConnectFailedFallsThrough(p) ==
    /\ pc[p] = "awaitConnect"
    /\ clusterInstance' = Undefined
    /\ cachedCredentials' = NoCredentials
    /\ pc' = [pc EXCEPT ![p] = "idle"]
    /\ \E cause \in ConnectErrors :
         trace' = trace \o
             << [Ev("connectSettled", p, NoCredentials, Undefined, FALSE) EXCEPT !.cause = cause],
                [Ev("throwUnavailable", p, NoCredentials, Undefined, FALSE)
                    EXCEPT !.error = UnavailableError] >>
    /\ UNCHANGED <<idleTimeoutId, lastActivityTime, now, pendingTimers, credentials,
                   nextHandle, nextTimer, callsLeft>>
    /\ UNCHANGED otherThanConn

\* lines 139-151: connect() rejects; the cache is emptied and the call throws.
AcquireConnectFailedStep(p) ==
    /\ pc[p] = "awaitConnect"
    /\ clusterInstance' = Undefined
    /\ cachedCredentials' = NoCredentials
    /\ pc' = [pc EXCEPT ![p] = "idle"]
    /\ \E cause \in ConnectErrors :
         trace' = trace \o
             << [Ev("connectSettled", p, NoCredentials, Undefined, FALSE) EXCEPT !.cause = cause],
                [Ev("throw", p, NoCredentials, Undefined, FALSE)
                    EXCEPT !.error = connectionError(cause)] >>
    /\ UNCHANGED <<idleTimeoutId, lastActivityTime, now, pendingTimers, credentials,
                   nextHandle, nextTimer, callsLeft>>
AcquireConnectFailed(p) ==
    /\ AcquireConnectFailedStep(p)
    /\ UNCHANGED otherThanConn

\* ---- closeConnection(), lines 46-62

\* closeConnection() without lines 47-50: the timer is left alone.
closeConnectionBeginKeepsTimer(p) ==
    /\ UNCHANGED <<pendingTimers, idleTimeoutId>>
    /\ IF clusterInstance # Undefined
       THEN /\ pc' = [pc EXCEPT ![p] = "awaitCloseConnection"]
            /\ trace' = trace \o << Ev("closeConnection", p, NoCredentials, Undefined, TRUE),
                                    Ev("close", p, NoCredentials, clusterInstance, TRUE) >>
       ELSE /\ pc' = [pc EXCEPT ![p] = "idle"]
            /\ trace' = trace \o << Ev("closeConnection", p, NoCredentials, Undefined, TRUE),
                                    Ev("closeReturn", p, NoCredentials, Undefined, TRUE) >>
    /\ UNCHANGED <<clusterInstance, cachedCredentials, lastActivityTime, now,
                   credentials, nextHandle, nextTimer>>
    /\ UNCHANGED otherThanConn

\* lines 47-53 (and 61 when no handle is cached): the timer is cleared; with a
\* handle cached its close() is called, with none the call returns.
closeConnectionBegin(p) ==
    /\ IF idleTimeoutId # Undefined
       THEN /\ pendingTimers' = clearTimeout(idleTimeoutId)
            /\ idleTimeoutId' = Undefined
       ELSE UNCHANGED <<pendingTimers, idleTimeoutId>>
    /\ IF clusterInstance # Undefined
       THEN /\ pc' = [pc EXCEPT ![p] = "awaitCloseConnection"]
            /\ trace' = trace \o << Ev("closeConnection", p, NoCredentials, Undefined, TRUE),
                                    Ev("close", p, NoCredentials, clusterInstance, TRUE) >>
       ELSE /\ pc' = [pc EXCEPT ![p] = "idle"]
            /\ trace' = trace \o << Ev("closeConnection", p, NoCredentials, Undefined, TRUE),
                                    Ev("closeReturn", p, NoCredentials, Undefined, TRUE) >>
    /\ UNCHANGED <<clusterInstance, cachedCredentials, lastActivityTime, now,
                   credentials, nextHandle, nextTimer>>
    /\ UNCHANGED otherThanConn

\* A caller calls closeConnection().
CloseCall(p) ==
    /\ pc[p] = "idle"
    /\ callsLeft > 0
    /\ callsLeft' = callsLeft - 1
    /\ closeConnectionBegin(p)

\* lines 37-39: a timer whose delay has passed fires; its callback calls
\* closeConnection().
TimerFire ==
    \E t \in pendingTimers :
       /\ now >= t.due
       /\ pc[TimerCtx(t.id)] = "idle"
       /\ LET fired == pendingTimers \ {t} IN
          /\ IF idleTimeoutId # Undefined
             THEN /\ pendingTimers' = { u \in fired : u.id # idleTimeoutId }
                  /\ idleTimeoutId' = Undefined
             ELSE /\ pendingTimers' = fired
                  /\ UNCHANGED idleTimeoutId
          /\ IF clusterInstance # Undefined
             THEN /\ pc' = [pc EXCEPT ![TimerCtx(t.id)] = "awaitCloseConnection"]
                  /\ trace' = trace \o << Ev("timer", TimerCtx(t.id), NoCredentials, Undefined, TRUE),
                                          Ev("close", TimerCtx(t.id), NoCredentials, clusterInstance, TRUE) >>
             ELSE /\ pc' = [pc EXCEPT ![TimerCtx(t.id)] = "idle"]
                  /\ trace' = trace \o << Ev("timer", TimerCtx(t.id), NoCredentials, Undefined, TRUE),
                                          Ev("closeReturn", TimerCtx(t.id), NoCredentials, Undefined, TRUE) >>
       /\ UNCHANGED <<clusterInstance, cachedCredentials, lastActivityTime, now,
                      credentials, nextHandle, nextTimer, callsLeft>>
    /\ UNCHANGED otherThanConn

\* lines 53-61: close() settles, resolved or rejected; the finally block
\* empties the cache and closeConnection() returns.
CloseSettled(p) ==
    /\ pc[p] = "awaitCloseConnection"
    /\ \E ok \in BOOLEAN :
         trace' = trace \o << Ev("closeSettled", p, NoCredentials, Undefined, ok),
                              Ev("closeReturn", p, NoCredentials, Undefined, TRUE) >>
    /\ clusterInstance' = Undefined
    /\ cachedCredentials' = NoCredentials
    /\ lastActivityTime' = 0
    /\ pc' = [pc EXCEPT ![p] = "idle"]
    /\ UNCHANGED <<idleTimeoutId, now, pendingTimers, credentials, nextHandle,
                   nextTimer, callsLeft>>
    /\ UNCHANGED otherThanConn

\* Time passes.  The clock stops at MaxTime unless a timer is still waiting.
Tick ==
    /\ \/ now < MaxTime
       \/ \E t \in pendingTimers : t.due > now
    /\ now' = now + TickMs
    /\ UNCHANGED <<clusterInstance, cachedCredentials, idleTimeoutId, lastActivityTime,
                   pendingTimers, pc, credentials, nextHandle, nextTimer, callsLeft, trace>>
    /\ UNCHANGED otherThanConn

-----------------------------------------------------------------------------
(* withRetry (utils/couchbase: retry helper) and utils/constants.ts *)

DEFAULT_RETRY_ATTEMPTS == 3
DEFAULT_RETRY_DELAY_MS == 1000
RETRY_BACKOFF_MULTIPLIER == 2

\* The error classes operation() may throw.
ErrorNames == {"TimeoutError", "TemporaryFailureError", "DocumentNotFoundError", "Error"}

\* DEFAULT_RETRYABLE_ERRORS
DEFAULT_RETRYABLE_ERRORS == {"TimeoutError", "TemporaryFailureError"}

\* defaultIsRetryable(error)
defaultIsRetryable(name) ==
    \E errorClass \in DEFAULT_RETRYABLE_ERRORS : InstanceOf(name, errorClass)

\* What a call of operation() settles to: a value, or an error of a class.
\* id tells the calls' results apart (each rejection is an Error object of its own).
Settled(i) ==
    { [ok |-> TRUE, name |-> "value", id |-> i] }
    \cup { [ok |-> FALSE, name |-> n, id |-> i] : n \in ErrorNames }
\* No value and no error: undefined.
NoResult == [ok |-> FALSE, name |-> "undefined", id |-> 0]

\* The operations: what each of the first MaxTries calls settles to.
Operations ==
    { f \in [1..MaxTries -> UNION { Settled(i) : i \in 1..MaxTries }] :
        \A i \in 1..MaxTries : f[i] \in Settled(i) }

\* The RetryOptions objects: any of the four properties may be missing.
OptionKeys == {"maxAttempts", "delayMs", "backoffMultiplier", "isRetryable"}
FullOptions ==
    [maxAttempts : 0..MaxTries,
     delayMs : {0, 10},
     backoffMultiplier : {1, 2, 3},
     isRetryable : { {}, {"Error"}, {"TimeoutError", "DocumentNotFoundError"} }]
OptionObjects ==
    { [k \in keys |-> full[k]] : full \in FullOptions, keys \in SUBSET OptionKeys }

\* Math.pow(base, exponent), for a whole exponent >= 0
RECURSIVE pow(_, _)
pow(base, exponent) ==
    IF exponent = 0 THEN 1 ELSE base * pow(base, exponent - 1)

\* line 344, delay before the retry that follows attempt number att
backoffDelayOffByOne(att) == delayMs * pow(backoffMultiplier, att)
backoffDelay(att) == delayMs * pow(backoffMultiplier, att - 1)

\* line 339: whether the error of attempt number att is thrown at once
throwsNowLastAttemptOnly(shouldRetry, att) == att = maxAttempts
throwsNowNotRetryableOnly(shouldRetry, att) == ~shouldRetry
throwsNow(shouldRetry, att) == ~shouldRetry \/ att = maxAttempts

\* lines 329-331 and 352: the loop test with attempt = att and maxAttempts =
\* max; either operation() is called or the loop is left and lastError (err)
\* is thrown.
loopTest(att, max, err) ==
    IF att <= max
    THEN /\ retryPc' = "awaitOperation"
         /\ operationCalls' = operationCalls + 1
         /\ outcome' = outcome
    ELSE /\ retryPc' = "thrown"
         /\ operationCalls' = operationCalls
         /\ outcome' = err

\* lines 320-325: a property of the options, or its default when missing
optionOr(opts, key, default) ==
    IF key \in DOMAIN opts THEN opts[key] ELSE default

\* A property of an object literal: a value, or undefined (a key written out
\* with the value undefined, which is not the same as the key missing).
Property(value) == [defined |-> TRUE, value |-> value]
UndefinedProperty(key) ==
    [defined |-> FALSE, value |-> IF key = "isRetryable" THEN {} ELSE 0]

\* {...a, ...b}: every property of b, the undefined ones too, replaces a's.
spread(a, b) ==
    [k \in DOMAIN a \cup DOMAIN b |-> IF k \in DOMAIN b THEN b[k] ELSE a[k]]

\* What destructuring with defaults sees of an object: its properties that
\* are not undefined (lines 320-325 take the default for the others).
definedOf(object) ==
    [k \in { k \in DOMAIN object : object[k].defined } |-> object[k].value]

\* The options a call of the retry function passes: each property is missing,
\* undefined or a value.
CallOptionObjects == [OptionKeys -> {"missing", "undefined", "value"}]
CallValues ==
    [maxAttempts |-> 2, delayMs |-> 10, backoffMultiplier |-> 3, isRetryable |-> {"Error"}]
callObject(f) ==
    [k \in { k \in OptionKeys : f[k] # "missing" } |->
        IF f[k] = "value" THEN Property(CallValues[k]) ELSE UndefinedProperty(k)]
\* The defaultOptions given to createRetryFunction: each property is missing
\* or a value.
FactoryValues ==
    [maxAttempts |-> 1, delayMs |-> 20, backoffMultiplier |-> 1,
     isRetryable |-> {"DocumentNotFoundError"}]
FactoryObjects ==
    { [k \in keys |-> Property(FactoryValues[k])] : keys \in SUBSET OptionKeys }
\* The operations passed to the retry function: they fail the same way every
\* time, or succeed at once.
FactoryOperations ==
    { op \in Operations : \A i \in 1..MaxTries : op[i].name = op[1].name }

\* createRetryFunction(defaultOptions)(operation, options), lines 375-380, into
\* withRetry, lines 316-331: the two objects are merged, the merged options
\* destructured with their defaults, and the loop entered.
RetryFunctionCall ==
    /\ retryPc = "idle"
    /\ \E op \in FactoryOperations, defs \in FactoryObjects, f \in CallOptionObjects :
         LET opts == definedOf(spread(defs, callObject(f))) IN
         /\ operation' = op
         /\ defaultOptions' = defs
         /\ callOptions' = callObject(f)
         /\ options' = opts
         /\ maxAttempts' = optionOr(opts, "maxAttempts", DEFAULT_RETRY_ATTEMPTS)
         /\ delayMs' = optionOr(opts, "delayMs", DEFAULT_RETRY_DELAY_MS)
         /\ backoffMultiplier' = optionOr(opts, "backoffMultiplier", RETRY_BACKOFF_MULTIPLIER)
         /\ isRetryable' = optionOr(opts, "isRetryable",
                                    { n \in ErrorNames : defaultIsRetryable(n) })
         /\ loopTest(1, optionOr(opts, "maxAttempts", DEFAULT_RETRY_ATTEMPTS), NoResult)
    /\ lastError' = NoResult
    /\ attempt' = 1
    /\ UNCHANGED sleeps
    /\ UNCHANGED otherThanRetry

\* lines 316-331: withRetry(operation, options) is called; the options are
\* destructured with their defaults and the loop is entered.
RetryCall ==
    /\ retryPc = "idle"
    /\ \E op \in Operations, opts \in OptionObjects :
         /\ operation' = op
         /\ options' = opts
         /\ defaultOptions' = << >>
         /\ callOptions' = [k \in DOMAIN opts |-> Property(opts[k])]
         /\ maxAttempts' = optionOr(opts, "maxAttempts", DEFAULT_RETRY_ATTEMPTS)
         /\ delayMs' = optionOr(opts, "delayMs", DEFAULT_RETRY_DELAY_MS)
         /\ backoffMultiplier' = optionOr(opts, "backoffMultiplier", RETRY_BACKOFF_MULTIPLIER)
         /\ isRetryable' = optionOr(opts, "isRetryable",
                                    { n \in ErrorNames : defaultIsRetryable(n) })
         /\ loopTest(1, optionOr(opts, "maxAttempts", DEFAULT_RETRY_ATTEMPTS), NoResult)
    /\ lastError' = NoResult
    /\ attempt' = 1
    /\ UNCHANGED sleeps
    /\ UNCHANGED otherThanRetry

\* line 331: operation() resolves; its value is returned.
RetryOperationResolved ==
    /\ retryPc = "awaitOperation"
    /\ operation[operationCalls].ok
    /\ retryPc' = "returned"
    /\ outcome' = operation[operationCalls]
    /\ UNCHANGED <<operation, options, defaultOptions, callOptions, maxAttempts, delayMs, backoffMultiplier, isRetryable,
                   lastError, attempt, operationCalls, sleeps>>
    /\ UNCHANGED otherThanRetry

\* lines 332-347: operation() rejects; the error is thrown at once, or
\* withRetry sleeps before the next attempt.
RetryOperationRejected ==
    /\ retryPc = "awaitOperation"
    /\ ~operation[operationCalls].ok
    /\ LET error == operation[operationCalls]
           shouldRetry == error.name \in isRetryable
       IN  /\ lastError' = error
           /\ IF throwsNow(shouldRetry, attempt)
              THEN /\ retryPc' = "thrown"
                   /\ outcome' = error
                   /\ UNCHANGED sleeps
              ELSE /\ retryPc' = "sleeping"
                   /\ sleeps' = Append(sleeps, backoffDelay(attempt))
                   /\ UNCHANGED outcome
    /\ UNCHANGED <<operation, options, defaultOptions, callOptions, maxAttempts, delayMs, backoffMultiplier, isRetryable,
                   attempt, operationCalls>>
    /\ UNCHANGED otherThanRetry

\* lines 347, 329-331 and 352: the sleep is over; attempt++ and the loop test.
RetryWake ==
    /\ retryPc = "sleeping"
    /\ attempt' = attempt + 1
    /\ loopTest(attempt + 1, maxAttempts, lastError)
    /\ UNCHANGED <<operation, options, defaultOptions, callOptions, maxAttempts, delayMs, backoffMultiplier, isRetryable,
                   lastError, sleeps>>
    /\ UNCHANGED otherThanRetry

RetryInit ==
    /\ operation = << >>
    /\ options = << >>
    /\ defaultOptions = << >>
    /\ callOptions = << >>
    /\ maxAttempts = 0
    /\ delayMs = 0
    /\ backoffMultiplier = 0
    /\ isRetryable = {}
    /\ lastError = NoResult
    /\ attempt = 0
    /\ retryPc = "idle"
    /\ operationCalls = 0
    /\ sleeps = << >>
    /\ outcome = NoResult

RetryNext ==
    \/ RetryCall
    \/ RetryFunctionCall
    \/ RetryOperationResolved
    \/ RetryOperationRejected
    \/ RetryWake

-----------------------------------------------------------------------------
(* CouchbaseChatMessageHistory (nodes/memory/MemoryCouchbaseChat) *)

\* The values of the node's sessionKey parameter: the text, and the number of
\* blanks before and after it.
SessionKeys ==
    { [lead |-> 0, text |-> "", trail |-> 0],
      [lead |-> 1, text |-> "", trail |-> 1],
      [lead |-> 0, text |-> "s1", trail |-> 0],
      [lead |-> 1, text |-> "s1", trail |-> 1] }
\* sessionKey.trim()
trim(sessionKey) == [sessionKey EXCEPT !.lead = 0, !.trail = 0]
\* getSessionId(context, itemIndex), sessionHelpers.ts lines 7-15
getSessionId(sessionKey) ==
    IF /\ (sessionKey.lead > 0 \/ sessionKey.text # "" \/ sessionKey.trail > 0)
       /\ trim(sessionKey).text # ""
    THEN trim(sessionKey).text
    ELSE "default"
\* The session ids the histories are made for (supplyData: sessionId =
\* getSessionId(this, itemIndex)).
Sessions == { getSessionId(sessionKey) : sessionKey \in SessionKeys }
HistCallers == {1}
\* The callers whose calls on the history may overlap.
HistConcCallers == {1, 2}
HistContexts == HistCallers \cup HistConcCallers

\* The chat messages (BaseMessage objects) callers pass.
ChatMessages ==
    { [class |-> "HumanMessage", content |-> "hi"],
      [class |-> "AIMessage", content |-> "hello"] }
\* The batches passed to addMessages: 1 to MaxBatch messages.
Batches == UNION { [1..n -> ChatMessages] : n \in 1..MaxBatch }

\* mapChatMessagesToStoredMessages (lines 142, 158): each message becomes
\* {type, data}.
storedType(class) == IF class = "HumanMessage" THEN "human" ELSE "ai"
mapChatMessagesToStoredMessages(messages) ==
    [i \in 1..Len(messages) |->
        [type |-> storedType(messages[i].class),
         data |-> [content |-> messages[i].content]]]
\* mapStoredMessagesToChatMessages (line 121): each {type, data} becomes a
\* message of the class of its type.
chatClass(type) == IF type = "human" THEN "HumanMessage" ELSE "AIMessage"
mapStoredMessagesToChatMessages(storedMessages) ==
    [i \in 1..Len(storedMessages) |->
        [class |-> chatClass(storedMessages[i].type),
         content |-> storedMessages[i].data.content]]

\* One key for every session.
documentKeyShared(sessionId) == [prefix |-> "chat_history::", sessionId |-> "default"]
\* line 111
documentKey(sessionId) == [prefix |-> "chat_history::", sessionId |-> sessionId]
DocumentKeys == { documentKey(s) : s \in Sessions }

\* No document under a key.
NoDocument == [sessionId |-> "", messages |-> << >>, updatedAt |-> 0]
\* No error.
NoError == [name |-> "none", id |-> 0]
\* How a storage operation on key can settle: resolved ("ok"), rejected because
\* the document is missing, or rejected for another reason (here a timeout,
\* which leaves the collection as it was).  get, remove and mutateIn need the
\* document; upsert does not.
Settlements(key, needsDocument) ==
    (IF needsDocument /\ store[key] = NoDocument THEN {"DocumentNotFoundError"} ELSE {"ok"})
    \cup {"TimeoutError"}
\* The error of a settlement; id tells the Error objects apart.
ErrorOf(settlement) ==
    IF settlement = "ok" THEN NoError ELSE [name |-> settlement, id |-> Len(histTrace) + 1]

\* One entry of the history: a call ("getMessages", "addMessages", "clear"),
\* a storage operation settling ("get", "mutateIn", "upsert", "remove", with
\* its error), or a call ending ("return", with the messages returned, or
\* "throw", with the error thrown).
HistEv(ev, ctx, session, messages, error) ==
    [ev |-> ev, ctx |-> ctx, session |-> session, messages |-> messages, error |-> error]

\* line 124
getMessagesCatchesAll(error) == TRUE
getMessagesCatches(error) == error.name = "DocumentNotFoundError"
\* line 151
addMessagesFallsBackAlways(error) == TRUE
addMessagesFallsBack(error) == error.name = "DocumentNotFoundError"
\* line 176
clearIgnoresNothing(error) == FALSE
clearIgnores(error) == error.name = "DocumentNotFoundError"

\* lines 146-149: what the mutateIn does to a document: arrayAppend
\* ('messages', storedMessages, multi) and upsert('updatedAt').
mutateInReplacing(document, storedMessages, updatedAt) ==
    [document EXCEPT !.messages = storedMessages, !.updatedAt = updatedAt]
mutateIn(document, storedMessages, updatedAt) ==
    [document EXCEPT !.messages = @ \o storedMessages, !.updatedAt = updatedAt]

\* An upsert that appended to the messages stored at the time it is applied.
upsertDocumentMerging(sessionId, existing, messages, updatedAt) ==
    [sessionId |-> sessionId,
     messages |-> store[documentKey(sessionId)].messages
                  \o mapChatMessagesToStoredMessages(messages),
     updatedAt |-> updatedAt]
\* lines 155-160: the document the fallback writes.
upsertDocument(sessionId, existing, messages, updatedAt) ==
    [sessionId |-> sessionId,
     messages |-> mapChatMessagesToStoredMessages(existing \o messages),
     updatedAt |-> updatedAt]

\* lines 119-128: what getMessages() makes of the settled collection.get.
getMessagesEnd(p, key, settlement) ==
    LET error == ErrorOf(settlement)
        s == histCall[p].session
    IN  IF settlement = "ok"
        THEN HistEv("return", p, s, mapStoredMessagesToChatMessages(store[key].messages), NoError)
        ELSE IF getMessagesCatches(error)
             THEN HistEv("return", p, s, << >>, NoError)
             ELSE HistEv("throw", p, s, << >>, error)

\* ---- getMessages(), lines 117-129

\* line 119: the call starts; collection.get is awaited.
GetMessagesCall(p) ==
    /\ histPc[p] = "idle"
    /\ histCallsLeft > 0
    /\ histCallsLeft' = histCallsLeft - 1
    /\ \E s \in Sessions :
         /\ histCall' = [histCall EXCEPT ![p] = [session |-> s, messages |-> << >>, updatedAt |-> 0]]
         /\ histTrace' = Append(histTrace, HistEv("getMessages", p, s, << >>, NoError))
    /\ histPc' = [histPc EXCEPT ![p] = "getMessages"]
    /\ UNCHANGED <<store, today, existingMessages>>
    /\ UNCHANGED otherThanHist

\* lines 119-128: collection.get settles; the messages are returned, nothing is
\* returned for a missing document, any other error is thrown again.
GetMessagesSettled(p) ==
    /\ histPc[p] = "getMessages"
    /\ LET key == documentKey(histCall[p].session) IN
       \E settlement \in Settlements(key, TRUE) :
          histTrace' = histTrace \o
              << HistEv("get", p, histCall[p].session, << >>, ErrorOf(settlement)),
                 getMessagesEnd(p, key, settlement) >>
    /\ histPc' = [histPc EXCEPT ![p] = "idle"]
    /\ UNCHANGED <<store, today, histCall, existingMessages, histCallsLeft>>
    /\ UNCHANGED otherThanHist

\* ---- addMessages(messages), lines 141-166

\* lines 142-149: the call starts; mutateIn is awaited.
AddMessagesCall(p) ==
    /\ histPc[p] = "idle"
    /\ histCallsLeft > 0
    /\ histCallsLeft' = histCallsLeft - 1
    /\ \E s \in Sessions, messages \in Batches :
         /\ histCall' = [histCall EXCEPT
                           ![p] = [session |-> s, messages |-> messages, updatedAt |-> today]]
         /\ histTrace' = Append(histTrace, HistEv("addMessages", p, s, messages, NoError))
    /\ today' = today + 1
    /\ histPc' = [histPc EXCEPT ![p] = "mutateIn"]
    /\ UNCHANGED <<store, existingMessages>>
    /\ UNCHANGED otherThanHist

\* lines 146-154 and 161-164: mutateIn settles.  Resolved: the messages are
\* appended and the call returns.  Document missing: getMessages() is called
\* (collection.get awaited).  Any other error is thrown again.
AddMessagesMutateInSettled(p) ==
    /\ histPc[p] = "mutateIn"
    /\ LET s == histCall[p].session
           key == documentKey(s)
       IN  \E settlement \in Settlements(key, TRUE) :
              LET error == ErrorOf(settlement)
                  settled == HistEv("mutateIn", p, s, << >>, error)
              IN  IF settlement = "ok"
                  THEN /\ store' = [store EXCEPT ![key] =
                                      mutateIn(@, mapChatMessagesToStoredMessages(histCall[p].messages),
                                               histCall[p].updatedAt)]
                       /\ histTrace' = histTrace \o << settled, HistEv("return", p, s, << >>, NoError) >>
                       /\ histPc' = [histPc EXCEPT ![p] = "idle"]
                  ELSE IF addMessagesFallsBack(error)
                       THEN /\ histTrace' = Append(histTrace, settled)
                            /\ histPc' = [histPc EXCEPT ![p] = "fallbackGet"]
                            /\ UNCHANGED store
                       ELSE /\ histTrace' = histTrace \o << settled, HistEv("throw", p, s, << >>, error) >>
                            /\ histPc' = [histPc EXCEPT ![p] = "idle"]
                            /\ UNCHANGED store
    /\ UNCHANGED <<today, histCall, existingMessages, histCallsLeft>>
    /\ UNCHANGED otherThanHist

\* lines 154-160: the fallback's getMessages() ends.  If it returns, the
\* document is built from what it returned and the new messages, and upsert is
\* awaited; if it throws, so does addMessages.
AddMessagesFallbackGetSettled(p) ==
    /\ histPc[p] = "fallbackGet"
    /\ LET s == histCall[p].session
           key == documentKey(s)
       IN  \E settlement \in Settlements(key, TRUE) :
              LET end == getMessagesEnd(p, key, settlement)
                  settled == HistEv("get", p, s, << >>, ErrorOf(settlement))
              IN  IF end.ev = "return"
                  THEN /\ existingMessages' = [existingMessages EXCEPT ![p] = end.messages]
                       /\ histCall' = [histCall EXCEPT ![p].updatedAt = today]
                       /\ today' = today + 1
                       /\ histTrace' = Append(histTrace, settled)
                       /\ histPc' = [histPc EXCEPT ![p] = "upsert"]
                  ELSE /\ histTrace' = histTrace \o << settled, end >>
                       /\ histPc' = [histPc EXCEPT ![p] = "idle"]
                       /\ UNCHANGED <<existingMessages, histCall, today>>
    /\ UNCHANGED <<store, histCallsLeft>>
    /\ UNCHANGED otherThanHist

\* lines 156-160: upsert settles; the document is written and the call
\* returns, or the error is thrown.
AddMessagesUpsertSettled(p) ==
    /\ histPc[p] = "upsert"
    /\ LET s == histCall[p].session
           key == documentKey(s)
       IN  \E settlement \in Settlements(key, FALSE) :
              LET error == ErrorOf(settlement)
                  settled == HistEv("upsert", p, s, << >>, error)
              IN  IF settlement = "ok"
                  THEN /\ store' = [store EXCEPT ![key] =
                                      upsertDocument(s, existingMessages[p], histCall[p].messages,
                                                     histCall[p].updatedAt)]
                       /\ histTrace' = histTrace \o << settled, HistEv("return", p, s, << >>, NoError) >>
                  ELSE /\ histTrace' = histTrace \o << settled, HistEv("throw", p, s, << >>, error) >>
                       /\ UNCHANGED store
    /\ histPc' = [histPc EXCEPT ![p] = "idle"]
    /\ UNCHANGED <<today, histCall, existingMessages, histCallsLeft>>
    /\ UNCHANGED otherThanHist

\* ---- clear(), lines 171-180

\* line 173: the call starts; collection.remove is awaited.
ClearCall(p) ==
    /\ histPc[p] = "idle"
    /\ histCallsLeft > 0
    /\ histCallsLeft' = histCallsLeft - 1
    /\ \E s \in Sessions :
         /\ histCall' = [histCall EXCEPT ![p] = [session |-> s, messages |-> << >>, updatedAt |-> 0]]
         /\ histTrace' = Append(histTrace, HistEv("clear", p, s, << >>, NoError))
    /\ histPc' = [histPc EXCEPT ![p] = "remove"]
    /\ UNCHANGED <<store, today, existingMessages>>
    /\ UNCHANGED otherThanHist

\* lines 173-179: remove settles; the document is gone, or was missing, or the
\* error is thrown again.
ClearSettled(p) ==
    /\ histPc[p] = "remove"
    /\ LET s == histCall[p].session
           key == documentKey(s)
       IN  \E settlement \in Settlements(key, TRUE) :
              LET error == ErrorOf(settlement)
                  settled == HistEv("remove", p, s, << >>, error)
              IN  IF settlement = "ok"
                  THEN /\ store' = [store EXCEPT ![key] = NoDocument]
                       /\ histTrace' = histTrace \o << settled, HistEv("return", p, s, << >>, NoError) >>
                  ELSE IF clearIgnores(error)
                       THEN /\ histTrace' = histTrace \o << settled, HistEv("return", p, s, << >>, NoError) >>
                            /\ UNCHANGED store
                       ELSE /\ histTrace' = histTrace \o << settled, HistEv("throw", p, s, << >>, error) >>
                            /\ UNCHANGED store
    /\ histPc' = [histPc EXCEPT ![p] = "idle"]
    /\ UNCHANGED <<today, histCall, existingMessages, histCallsLeft>>
    /\ UNCHANGED otherThanHist

HistInit ==
    /\ store = [key \in DocumentKeys |-> NoDocument]
    /\ today = 1
    /\ histPc = [p \in HistContexts |-> "idle"]
    /\ histCall = [p \in HistContexts |-> [session |-> "", messages |-> << >>, updatedAt |-> 0]]
    /\ existingMessages = [p \in HistContexts |-> << >>]
    /\ histCallsLeft = MaxHistCalls
    /\ histTrace = << >>

\* A collection an earlier execution wrote to: session "s1" has a document
\* (one message, created by the fallback of addMessages), the others have none.
EarlierBatch == << [class |-> "HumanMessage", content |-> "hi"] >>
EarlierStore ==
    [key \in DocumentKeys |->
        IF key.sessionId = "s1"
        THEN [sessionId |-> "s1",
              messages |-> mapChatMessagesToStoredMessages(EarlierBatch),
              updatedAt |-> 0]
        ELSE NoDocument]
\* The history is built on that collection.
HistEarlierInit ==
    /\ store = EarlierStore
    /\ today = 1
    /\ histPc = [p \in HistContexts |-> "idle"]
    /\ histCall = [p \in HistContexts |-> [session |-> "", messages |-> << >>, updatedAt |-> 0]]
    /\ existingMessages = [p \in HistContexts |-> << >>]
    /\ histCallsLeft = MaxHistCalls
    /\ histTrace = << >>

\* No call on the history is suspended.
HistQuiescent == \A q \in HistCallers : histPc[q] = "idle"

\* Sequential use of the history store.
HistNext ==
    \/ \E p \in HistCallers : HistQuiescent /\ GetMessagesCall(p)
    \/ \E p \in HistCallers : HistQuiescent /\ AddMessagesCall(p)
    \/ \E p \in HistCallers : HistQuiescent /\ ClearCall(p)
    \/ \E p \in HistCallers : GetMessagesSettled(p)
    \/ \E p \in HistCallers : AddMessagesMutateInSettled(p)
    \/ \E p \in HistCallers : AddMessagesFallbackGetSettled(p)
    \/ \E p \in HistCallers : AddMessagesUpsertSettled(p)
    \/ \E p \in HistCallers : ClearSettled(p)

-----------------------------------------------------------------------------
(* MemoryCouchbaseChat.supplyData (nodes/memory/MemoryCouchbaseChat) *)

\* The session keys a node is set up with: blank, and a text between blanks.
NodeSessionKeys ==
    { [lead |-> 1, text |-> "", trail |-> 1],
      [lead |-> 1, text |-> "s1", trail |-> 1] }
\* The node as it is set up: the parameters as getNodeParameter returns them
\* (lines 106-119, and line 8 for sessionKey) and the credential getCredentials
\* resolves to (description.credentials, lines 61-66).  The bucket is named or
\* left at its default '', the scope is left at its default '', the
\* collection is named.
NodeParameters ==
    [bucketName : {"", "b"}, scopeName : {""}, collectionName : {"c"},
     sessionKey : NodeSessionKeys,
     couchbaseApi : { [connectionString |-> 1, username |-> 1, password |-> 1] }]
\* The defaults getNodeParameter is called with, and no credential.
DefaultParameters ==
    [bucketName |-> "", scopeName |-> "", collectionName |-> "",
     sessionKey |-> [lead |-> 0, text |-> "", trail |-> 0],
     couchbaseApi |-> NoCredentials]

\* The errors collection.exists() may reject with: their class and the words
\* of their message.
ExistsErrors ==
    { [name |-> "UnambiguousTimeoutError", message |-> << "unambiguous", "timeout" >>],
      [name |-> "BucketNotFoundError", message |-> << "bucket", "not", "found" >>],
      [name |-> "ScopeNotFoundError", message |-> << "not", "found" >>],
      [name |-> "Error", message |-> << "collection", "missing" >>],
      [name |-> "Error", message |-> << "boom" >>] }
\* error.message?.includes(word)
includes(message, word) == \E i \in DOMAIN message : message[i] = word

\* handleCouchbaseError(error, bucketName, scopeName, collectionName), lines
\* 171-227; the bullet of the first description is written '*'.
handleCouchbaseError(error, bucketName, scopeName, collectionName) ==
    IF InstanceOf(error.name, "UnambiguousTimeoutError")
    THEN NodeOperationError(
             << "Could not access bucket \"", bucketName, "\". The operation timed out." >>,
             << "This usually means the bucket \"", bucketName,
                "\" does not exist, is not active, or the credentials don't have access to it. Please verify:\n\n* The bucket \"",
                bucketName,
                "\" exists in your Couchbase cluster\n* The bucket is active and healthy\n* Your credentials have permission to access this bucket\n* Use the dropdown to select from available buckets" >>)
    ELSE IF InstanceOf(error.name, "BucketNotFoundError")
    THEN NodeOperationError(
             << "Bucket \"", bucketName, "\" was not found." >>,
             << "The specified bucket does not exist. Please create the bucket in your Couchbase cluster or select an existing bucket from the dropdown." >>)
    ELSE IF includes(error.message, "scope") \/ error.name = "ScopeNotFoundError"
    THEN NodeOperationError(
             << "Scope \"", scopeName, "\" was not found in bucket \"", bucketName, "\"." >>,
             << "The specified scope does not exist. Use \"_default\" for the default scope or create a custom scope in your Couchbase cluster." >>)
    ELSE IF includes(error.message, "collection") \/ error.name = "CollectionNotFoundError"
    THEN NodeOperationError(
             << "Collection \"", collectionName, "\" was not found in scope \"", scopeName, "\"." >>,
             << "The specified collection does not exist. Use \"_default\" for the default collection or create a custom collection in your Couchbase cluster." >>)
    ELSE NodeOperationError(
             << "Couchbase error: " >> \o error.message,
             << "Please ensure the bucket, scope, and collection exist and the credentials have appropriate permissions." >>)

\* supplyData before it is called, and after it threw error.
NotCalled == [pc |-> "idle", error |-> NoThrow]
Thrown(error) == [pc |-> "thrown", error |-> error]

\* lines 159-163: what supplyData throws for an error its outer catch block
\* caught.
supplyDataCatch(error) ==
    IF error.name = "NodeOperationError"
    THEN error
    ELSE handleCouchbaseError(error, nodeParameters.bucketName, nodeParameters.scopeName,
                              nodeParameters.collectionName)

\* lines 106-127: supplyData is called.  Without a bucket name it throws;
\* otherwise it calls connectToCouchbase, which suspends in getCredentials.
SupplyDataCall(p) ==
    /\ supplyData.pc = "idle"
    /\ IF nodeParameters.bucketName = ""
       THEN /\ supplyData' = Thrown(NodeOperationError(<< "Bucket name is required" >>, << >>))
            /\ UNCHANGED connVars
       ELSE /\ AcquireCallStep(p)
            /\ supplyData' = [supplyData EXCEPT !.pc = "connectToCouchbase"]
    /\ UNCHANGED <<nodeParameters, retryVars, histVars>>

\* lines 127-137 and 159-163: what supplyData does after a step of the
\* connectToCouchbase call it awaits.  The call still suspended, so is
\* supplyData; the handle returned, supplyData calls collection.exists and
\* suspends; the call having thrown, supplyData throws.
SupplyDataResumes(p) ==
    supplyData' =
        IF pc'[p] # "idle"
        THEN supplyData
        ELSE IF trace'[Len(trace')].ev = "return"
             THEN [supplyData EXCEPT !.pc = "exists"]
             ELSE Thrown(supplyDataCatch(trace'[Len(trace')].error))

\* line 127: the steps of the connectToCouchbase call supplyData awaits;
\* getCredentials resolves to the node's credential.
SupplyDataCheck(p) ==
    /\ supplyData.pc = "connectToCouchbase"
    /\ AcquireCheckStep(p)
    /\ credentials'[p] = nodeParameters.couchbaseApi
    /\ SupplyDataResumes(p)
    /\ UNCHANGED <<nodeParameters, retryVars, histVars>>
SupplyDataConnected(p) ==
    /\ supplyData.pc = "connectToCouchbase"
    /\ AcquireConnectedStep(p)
    /\ SupplyDataResumes(p)
    /\ UNCHANGED <<nodeParameters, retryVars, histVars>>
SupplyDataConnectFailed(p) ==
    /\ supplyData.pc = "connectToCouchbase"
    /\ AcquireConnectFailedStep(p)
    /\ SupplyDataResumes(p)
    /\ UNCHANGED <<nodeParameters, retryVars, histVars>>

\* lines 136-158: collection.exists settles.  Resolved: the history is built
\* and supplyData returns the memory around it.  Rejected: supplyData throws
\* what handleCouchbaseError makes of the error.
SupplyDataExistsSettled ==
    /\ supplyData.pc = "exists"
    /\ \/ supplyData' = [supplyData EXCEPT !.pc = "returned"]
       \/ \E error \in ExistsErrors :
             supplyData' =
                 Thrown(supplyDataCatch(
                     handleCouchbaseError(error, nodeParameters.bucketName,
                                          nodeParameters.scopeName,
                                          nodeParameters.collectionName)))
    /\ UNCHANGED <<nodeParameters, connVars, retryVars, histVars>>

\* The node before supplyData is called.
NodeInit ==
    /\ nodeParameters \in NodeParameters
    /\ supplyData = NotCalled
\* No node: the parameters at their defaults.
NodeDefaultInit ==
    /\ nodeParameters = DefaultParameters
    /\ supplyData = NotCalled

-----------------------------------------------------------------------------
(* The specifications *)

ConnInit ==
    /\ clusterInstance = Undefined
    /\ cachedCredentials = NoCredentials
    /\ idleTimeoutId = Undefined
    /\ lastActivityTime = 0
    /\ now = TickMs
    /\ pendingTimers = {}
    /\ pc = [p \in Contexts |-> "idle"]
    /\ credentials = [p \in Contexts |-> NoCredentials]
    /\ nextHandle = 1
    /\ nextTimer = 1
    /\ callsLeft = MaxCalls
    /\ trace = << >>

\* No call and no timer callback is suspended.
Quiescent == \A q \in Contexts : pc[q] = "idle"

\* One caller that awaits each of its calls before making the next.  The
\* callback of a timer that has come due runs whenever the event loop is free:
\* also while the caller's call is suspended in an await, and the caller may
\* call while the callback is suspended in close().
ConnNext ==
    \/ \E p \in Callers : AcquireCall(p)
    \/ \E p \in Callers : AcquireCheck(p)
    \/ \E p \in Callers : AcquireCloseSettled(p)
    \/ \E p \in Callers : AcquireConnected(p)
    \/ \E p \in Callers : AcquireConnectFailed(p)
    \/ \E p \in Callers : CloseCall(p)
    \/ \E p \in Contexts : CloseSettled(p)
    \/ TimerFire
    \/ Tick

Init == ConnInit /\ RetryInit /\ HistInit /\ NodeDefaultInit

Next == ConnNext

Spec == Init /\ [][Next]_vars

\* Overlapping use: the calls of two callers interleave at every await, within
\* one idle period (no timer comes due).
ConcNext ==
    \/ \E p \in ConcCallers : AcquireCall(p)
    \/ \E p \in ConcCallers : AcquireCheck(p)
    \/ \E p \in ConcCallers : AcquireCloseSettled(p)
    \/ \E p \in ConcCallers : AcquireConnected(p)
    \/ \E p \in ConcCallers : AcquireConnectFailed(p)
    \/ \E p \in ConcCallers : CloseCall(p)
    \/ \E p \in ConcCallers : CloseSettled(p)

ConcSpec == Init /\ [][ConcNext]_vars

\* Overlapping use with timers: the calls of two callers, MaxAsyncCalls calls in
\* all, and the callbacks of the timers that come due interleave at every await.
AsyncNext ==
    \/ \E p \in ConcCallers : callsLeft > MaxCalls - MaxAsyncCalls /\ AcquireCall(p)
    \/ \E p \in ConcCallers : AcquireCheck(p)
    \/ \E p \in ConcCallers : AcquireCloseSettled(p)
    \/ \E p \in ConcCallers : AcquireConnected(p)
    \/ \E p \in ConcCallers : AcquireConnectFailed(p)
    \/ \E p \in ConcCallers : callsLeft > MaxCalls - MaxAsyncCalls /\ CloseCall(p)
    \/ \E p \in Contexts : CloseSettled(p)
    \/ TimerFire
    \/ Tick

AsyncSpec == Init /\ [][AsyncNext]_vars

\* Overlapping writers: the addMessages calls of two callers, MaxOverlap calls
\* in all, interleave at every await.
HistConcNext ==
    \/ \E p \in HistConcCallers :
          histCallsLeft > MaxHistCalls - MaxOverlap /\ AddMessagesCall(p)
    \/ \E p \in HistConcCallers : AddMessagesMutateInSettled(p)
    \/ \E p \in HistConcCallers : AddMessagesFallbackGetSettled(p)
    \/ \E p \in HistConcCallers : AddMessagesUpsertSettled(p)

HistConcSpec == Init /\ [][HistConcNext]_vars

\* Overlapping writers on a collection that holds a document already.
EarlierInit == ConnInit /\ RetryInit /\ HistEarlierInit /\ NodeDefaultInit
AppendSpec == EarlierInit /\ [][HistConcNext]_vars

\* The memory node (supplyData, sessionHelpers.ts lines 105-165): supplyData
\* is called once, on the empty cache; the history it returns is then used,
\* one call at a time.  The idle timer connectToCouchbase armed runs on: it
\* may fire, and its close() settle, while supplyData is suspended and while
\* the history is in use.

\* supplyData has returned: the history exists.
NodeReady == supplyData.pc = "returned"
\* The call a caller makes is made on the history supplyData built: its
\* session id is getSessionId's of the node's sessionKey (lines 120, 142-145).
OnNodeSession(p) == histCall'[p].session = getSessionId(nodeParameters.sessionKey)
NodeGetMessagesCall(p) ==
    NodeReady /\ HistQuiescent /\ GetMessagesCall(p) /\ OnNodeSession(p)
NodeAddMessagesCall(p) ==
    NodeReady /\ HistQuiescent /\ AddMessagesCall(p) /\ OnNodeSession(p)
NodeClearCall(p) ==
    NodeReady /\ HistQuiescent /\ ClearCall(p) /\ OnNodeSession(p)
NodeNext ==
    \/ \E p \in Callers : SupplyDataCall(p)
    \/ \E p \in Callers : SupplyDataCheck(p)
    \/ \E p \in Callers : SupplyDataConnected(p)
    \/ \E p \in Callers : SupplyDataConnectFailed(p)
    \/ SupplyDataExistsSettled
    \/ \E p \in Contexts : CloseSettled(p)
    \/ TimerFire
    \/ Tick
    \/ \E p \in HistCallers : NodeGetMessagesCall(p)
    \/ \E p \in HistCallers : NodeAddMessagesCall(p)
    \/ \E p \in HistCallers : NodeClearCall(p)
    \/ \E p \in HistCallers : GetMessagesSettled(p)
    \/ \E p \in HistCallers : AddMessagesMutateInSettled(p)
    \/ \E p \in HistCallers : AddMessagesFallbackGetSettled(p)
    \/ \E p \in HistCallers : AddMessagesUpsertSettled(p)
    \/ \E p \in HistCallers : ClearSettled(p)

NodeSpecInit == ConnInit /\ RetryInit /\ HistInit /\ NodeInit
NodeSpec == NodeSpecInit /\ [][NodeNext]_vars

\* The history store alone.
HistSpec == Init /\ [][HistNext]_vars

\* withRetry alone.
RetrySpec == Init /\ [][RetryNext]_vars

\* The caller only ever calls connectToCouchbase, MaxLiveCalls times in all;
\* closeConnection() runs from the timer alone.
LiveNext ==
    \/ \E p \in Callers : callsLeft > MaxCalls - MaxLiveCalls /\ AcquireCall(p)
    \/ \E p \in Callers : AcquireCheck(p)
    \/ \E p \in Callers : AcquireCloseSettled(p)
    \/ \E p \in Callers : AcquireConnected(p)
    \/ \E p \in Callers : AcquireConnectFailed(p)
    \/ \E p \in Contexts : CloseSettled(p)
    \/ TimerFire
    \/ Tick

\* Time passes, a due timer's callback runs, and every pending promise
\* (getCredentials, close, connect) settles.  Nothing obliges a caller to call.
LiveSpec ==
    /\ Init
    /\ [][LiveNext]_vars
    /\ WF_vars(Tick)
    /\ WF_vars(TimerFire)
    /\ WF_vars(\E p \in Contexts : CloseSettled(p))
    /\ WF_vars(\E p \in Callers : AcquireCheck(p))
    /\ WF_vars(\E p \in Callers : AcquireCloseSettled(p))
    /\ WF_vars(\E p \in Callers : AcquireConnected(p) \/ AcquireConnectFailed(p))

-----------------------------------------------------------------------------
(* The history, read back *)

Idx == DOMAIN trace
MinOf(S) == CHOOSE x \in S : \A y \in S : x <= y
MaxOf(S) == CHOOSE x \in S : \A y \in S : x >= y
EventsOf(kind) == { i \in Idx : trace[i].ev = kind }
\* How a connectToCouchbase call ends.
Outcomes == {"return", "throw", "throwUnavailable"}
\* The entry that ends the call whose "acquire" is entry i; Len(trace) + 1
\* while the call is suspended.
CallEnd(i) ==
    LET ends == { j \in (i + 1)..Len(trace) :
                    trace[j].ctx = trace[i].ctx /\ trace[j].ev \in Outcomes }
    IN  IF ends = {} THEN Len(trace) + 1 ELSE MinOf(ends)
\* The entries of the given kind made by the call whose "acquire" is entry i.
CallEvents(i, kind) ==
    LET end == CallEnd(i)
    IN  { j \in (i + 1)..Len(trace) : /\ j <= end
                                      /\ trace[j].ctx = trace[i].ctx
                                      /\ trace[j].ev = kind }
\* The last call that ended before entry k ended by throwing the connection error.
PreviousCallFailed(k) ==
    LET prev == { j \in Idx : j < k /\ trace[j].ev \in Outcomes }
    IN  prev # {} /\ trace[MaxOf(prev)].ev = "throw"
CredentialFields == {"connectionString", "username", "password"}
DifferingFields(a, b) == { f \in CredentialFields : a[f] # b[f] }

-----------------------------------------------------------------------------
(* Claims about the connection cache *)

\* The hypothesis of C1: since the empty state only connectToCouchbase was
\* called, every call got the same tuple, no connect failed, and neither
\* closeConnection() nor a timer callback ran.
SameTupleRun ==
    /\ \A i \in Idx : trace[i].ev \notin {"closeConnection", "timer"}
    /\ \A i \in EventsOf("connectSettled") : trace[i].ok
    /\ \A i, j \in EventsOf("acquire") : trace[i].cred = trace[j].cred

\* C1 (handle reuse): in a run of sequential connectToCouchbase calls that all
\* receive the same credential tuple, starting from the empty state, with no
\* connect failure, no closeConnection() and no timer firing, connect is
\* invoked exactly once, by the first call; every call returns, and returns
\* the same handle; close() is never invoked.
C1_HandleReuse ==
    SameTupleRun =>
        /\ Cardinality(EventsOf("connect")) <= 1
        /\ \A c \in EventsOf("connect") : c \in CallEvents(MinOf(EventsOf("acquire")), "connect")
        /\ EventsOf("return") # {} => Cardinality(EventsOf("connect")) = 1
        /\ \A r, q \in EventsOf("return") :
              trace[r].h = trace[q].h /\ trace[r].h # Undefined
        /\ EventsOf("close") = {}
        /\ EventsOf("throw") = {} /\ EventsOf("throwUnavailable") = {}

\* C1's case: three calls with the same tuple have all returned.
C1_Witness ==
    /\ SameTupleRun
    /\ Cardinality(EventsOf("return")) >= 3

\* C2 (credential-diff invalidation): a call that finds a handle cached and
\* receives a tuple differing from the cached one in exactly one field invokes
\* close() once, on the cached handle, and connect once, with the new tuple,
\* after the close; when it returns, the handle it returns is a new one and it
\* and the new tuple are what is cached.
C2_CredentialChange ==
    \A i \in EventsOf("acquire") :
        (trace[i].h # Undefined /\ Cardinality(DifferingFields(trace[i].cred, trace[i].cached)) = 1)
        =>
        LET closes == CallEvents(i, "close")
            connects == CallEvents(i, "connect")
            end == CallEnd(i)
        IN  /\ Cardinality(closes) <= 1
            /\ Cardinality(connects) <= 1
            /\ \A c \in closes : trace[c].h = trace[i].h
            /\ \A c \in connects :
                  /\ trace[c].cred = trace[i].cred
                  /\ \E k \in closes : k < c
            /\ end <= Len(trace) =>
                  /\ Cardinality(closes) = 1
                  /\ Cardinality(connects) = 1
            /\ (end = Len(trace) /\ trace[end].ev = "return") =>
                  /\ trace[end].h # trace[i].h
                  /\ clusterInstance = trace[end].h
                  /\ cachedCredentials = trace[i].cred

\* C2's case: two calls that each found a handle cached under a tuple differing
\* from theirs in one field alone, a different field each, have returned.
C2_Witness ==
    \E i, j \in EventsOf("acquire") :
        /\ trace[i].h # Undefined
        /\ trace[j].h # Undefined
        /\ Cardinality(DifferingFields(trace[i].cred, trace[i].cached)) = 1
        /\ Cardinality(DifferingFields(trace[j].cred, trace[j].cached)) = 1
        /\ DifferingFields(trace[i].cred, trace[i].cached)
              # DifferingFields(trace[j].cred, trace[j].cached)
        /\ CallEnd(i) <= Len(trace)
        /\ trace[CallEnd(i)].ev = "return"
        /\ CallEnd(j) <= Len(trace)
        /\ trace[CallEnd(j)].ev = "return"

\* C3 (no stale state after a failed connect): a call whose connect rejects
\* throws; while that failure is the last outcome of a call,
\* hasActiveConnection() is false; and the next call finds no handle and
\* invokes connect with the tuple it is given.
C3_FailedConnect ==
    /\ \A i \in EventsOf("connectSettled") :
          ~trace[i].ok =>
              /\ i + 1 \in Idx
              /\ trace[i + 1].ev = "throw"
              /\ trace[i + 1].ctx = trace[i].ctx
    /\ PreviousCallFailed(Len(trace) + 1) => ~hasActiveConnection
    /\ \A k \in EventsOf("acquire") :
          PreviousCallFailed(k) =>
              /\ trace[k].h = Undefined
              /\ k + 1 \in Idx
              /\ trace[k + 1].ev = "connect"
              /\ trace[k + 1].ctx = trace[k].ctx
              /\ trace[k + 1].cred = trace[k].cred

\* C3's case: a connect failed after a credential change on a connected state,
\* and the next call, given the tuple that had just failed, invoked connect.
C3_Witness ==
    \E i, k \in EventsOf("acquire") :
        /\ i < k
        /\ trace[i].h # Undefined
        /\ CallEnd(i) < k
        /\ trace[CallEnd(i)].ev = "throw"
        /\ PreviousCallFailed(k)
        /\ trace[k].cred = trace[i].cred
        /\ k + 1 \in Idx
        /\ trace[k + 1].ev = "connect"

\* No caller has a call in flight.
CallersIdle == \A p \in Callers : pc[p] = "idle"
\* The last thing that happened is a timer's closeConnection() returning, and
\* no handle is cached.
EvictedByTimer ==
    /\ ~hasActiveConnection
    /\ trace # << >>
    /\ trace[Len(trace)].ev = "closeReturn"
    /\ trace[Len(trace)].ctx \notin Callers
\* A step in which a timer fires.
TimerFires ==
    /\ Len(trace') > Len(trace)
    /\ trace'[Len(trace) + 1].ev = "timer"

\* close() has been invoked on handle h by a timer's callback.
ClosedByTimer(h) ==
    \E c \in EventsOf("close") : trace[c].h = h /\ trace[c].ctx \notin Callers

\* C4 (idle eviction): with no closeConnection() call by any caller, a timer
\* that fires while a handle is cached fires only once the idle duration has
\* passed since the last successful connectToCouchbase, and then invokes
\* close() on the cached handle; and from every state with a handle cached and
\* no call in flight, either a caller calls again, or a timer's callback
\* invokes close() on that handle, completes and leaves hasActiveConnection()
\* false, whether close() resolved or rejected.
C4_IdleEviction ==
    /\ [][(TimerFires /\ hasActiveConnection) =>
            /\ lastActivityTime # 0
            /\ getConnectionIdleTime >= CONNECTION_IDLE_TIMEOUT_MS
            /\ trace'[Len(trace) + 2].ev = "close"
            /\ trace'[Len(trace) + 2].ctx = trace'[Len(trace) + 1].ctx
            /\ trace'[Len(trace) + 2].h = clusterInstance]_vars
    /\ \A h \in 1..MaxCalls :
          (clusterInstance = h /\ CallersIdle)
              ~> ((EvictedByTimer /\ ClosedByTimer(h)) \/ ~CallersIdle)

-----------------------------------------------------------------------------
(* Claims about withRetry *)

\* withRetry has been called / has ended.
RetryCalled == retryPc # "idle"
RetryEnded == retryPc \in {"returned", "thrown"}
\* The i-th call of operation() rejects with an error isRetryable accepts.
RetryableFailure(i) == ~operation[i].ok /\ operation[i].name \in isRetryable
\* The i-th sleep of an exponential backoff: delayMs, then backoffMultiplier
\* times the sleep before.
ExpectedSleep[i \in 1..(MaxTries + 1)] ==
    IF i = 1 THEN delayMs ELSE ExpectedSleep[i - 1] * backoffMultiplier

\* C5 (retry with exponential backoff): with maxAttempts >= 1 and
\* k < maxAttempts, if operation fails with a retryable error on its first k
\* calls and succeeds on call k + 1, withRetry never calls it more than k + 1
\* times, its i-th sleep lasts delayMs * backoffMultiplier^(i-1), and it ends
\* by returning the value of call k + 1 after exactly k + 1 calls and k sleeps.
C5_RetryThenSuccess ==
    \A k \in 0..(MaxTries - 1) :
        ( /\ RetryCalled
          /\ maxAttempts >= 1
          /\ k < maxAttempts
          /\ \A i \in 1..k : RetryableFailure(i)
          /\ operation[k + 1].ok )
        =>
        /\ operationCalls <= k + 1
        /\ Len(sleeps) <= k
        /\ \A i \in 1..Len(sleeps) : sleeps[i] = ExpectedSleep[i]
        /\ RetryEnded =>
              /\ retryPc = "returned"
              /\ outcome = operation[k + 1]
              /\ operationCalls = k + 1
              /\ Len(sleeps) = k

\* C5's case: maxAttempts 3, delay 10, multiplier 2, two retryable failures:
\* three calls, sleeps of 10 then 20, and the value returned.
C5_Witness ==
    /\ retryPc = "returned"
    /\ maxAttempts = 3
    /\ delayMs = 10
    /\ backoffMultiplier = 2
    /\ RetryableFailure(1)
    /\ RetryableFailure(2)
    /\ operationCalls = 3
    /\ sleeps = <<10, 20>>
    /\ outcome = operation[3]

\* C6 (non-retryable failure): if attempt j of operation (j <= maxAttempts,
\* the attempts before it failing with retryable errors) fails with an error
\* isRetryable rejects, withRetry makes no call and no sleep after it and
\* throws that very error: j calls, j - 1 sleeps.
C6_NonRetryable ==
    \A j \in 1..MaxTries :
        ( /\ RetryCalled
          /\ j <= maxAttempts
          /\ \A i \in 1..(j - 1) : RetryableFailure(i)
          /\ ~operation[j].ok
          /\ operation[j].name \notin isRetryable )
        =>
        /\ operationCalls <= j
        /\ Len(sleeps) <= j - 1
        /\ RetryEnded =>
              /\ retryPc = "thrown"
              /\ outcome = operation[j]
              /\ operationCalls = j
              /\ Len(sleeps) = j - 1

\* C6's case: the first of three allowed attempts failed with a non-retryable
\* error and withRetry has thrown: one call, no sleep.
C6_Witness ==
    /\ retryPc = "thrown"
    /\ maxAttempts = 3
    /\ ~operation[1].ok
    /\ operation[1].name \notin isRetryable
    /\ operationCalls = 1
    /\ sleeps = << >>
    /\ outcome = operation[1]

\* C7 (retry exhaustion): with maxAttempts >= 1, if the first maxAttempts calls
\* of operation all fail with retryable errors, withRetry calls it exactly
\* maxAttempts times, sleeps exactly maxAttempts - 1 times, and throws the
\* error of the last call.
C7_Exhaustion ==
    ( /\ RetryCalled
      /\ maxAttempts >= 1
      /\ \A i \in 1..maxAttempts : RetryableFailure(i) )
    =>
    /\ operationCalls <= maxAttempts
    /\ Len(sleeps) <= maxAttempts - 1
    /\ RetryEnded =>
          /\ retryPc = "thrown"
          /\ outcome = operation[maxAttempts]
          /\ operationCalls = maxAttempts
          /\ Len(sleeps) = maxAttempts - 1

\* C7's case: three attempts failed with retryable errors, the first of another
\* class than the last, and withRetry has thrown.
C7_Witness ==
    /\ retryPc = "thrown"
    /\ maxAttempts = 3
    /\ \A i \in 1..3 : RetryableFailure(i)
    /\ operation[1].name # operation[3].name
    /\ operationCalls = 3
    /\ Len(sleeps) = 2
    /\ outcome = operation[3]

-----------------------------------------------------------------------------
(* The message history: C8 - C10 *)

HistIdx == DOMAIN histTrace
HistCallKinds == {"getMessages", "addMessages", "clear"}
HistEnds == {"return", "throw"}
\* The calls of the given kind made on a session.
HistCalls(kind, s) ==
    { i \in HistIdx : histTrace[i].ev = kind /\ histTrace[i].session = s }
\* The entry that ends the call begun at entry i; Len(histTrace) + 1 while the
\* call is suspended.
HistCallEnd(i) ==
    LET ends == { j \in HistIdx : /\ j > i
                                  /\ histTrace[j].ctx = histTrace[i].ctx
                                  /\ histTrace[j].ev \in HistEnds }
    IN  IF ends = {} THEN Len(histTrace) + 1 ELSE MinOf(ends)
HistReturned(i) ==
    HistCallEnd(i) \in HistIdx /\ histTrace[HistCallEnd(i)].ev = "return"
\* The storage operations of the given kind that settled within the call begun
\* at entry i.
HistSettled(i, kind) ==
    { k \in HistIdx : /\ i < k
                      /\ k < HistCallEnd(i)
                      /\ histTrace[k].ctx = histTrace[i].ctx
                      /\ histTrace[k].ev = kind }
\* The batches added to session s by the addMessages calls begun after entry
\* lo and before entry hi, concatenated in call order.
RECURSIVE AddedIn(_, _, _)
AddedIn(s, lo, hi) ==
    IF hi <= lo + 1 THEN << >>
    ELSE AddedIn(s, lo, hi - 1) \o
         (IF (hi - 1) \in HistCalls("addMessages", s) THEN histTrace[hi - 1].messages ELSE << >>)
\* Between entries lo and hi, session s was not cleared and every addMessages
\* on it had returned when the next call began (reads may have ended either
\* way).
OnlyAdds(s, lo, hi) ==
    \A i \in HistIdx :
        (lo < i /\ i < hi /\ histTrace[i].session = s /\ histTrace[i].ev \in HistCallKinds)
        => /\ histTrace[i].ev # "clear"
           /\ histTrace[i].ev = "addMessages" => (HistReturned(i) /\ HistCallEnd(i) < hi)
\* No call on session s is suspended.
SessionIdle(s) ==
    \A q \in HistCallers : histPc[q] # "idle" => histCall[q].session # s

\* C8: on a session that had no document, after sequential addMessages calls
\* that returned (and no clear), a getMessages that returns gives exactly the
\* batches concatenated in call order, each batch in its own order.
C8_AppendOrder ==
    \A s \in Sessions : \A i \in HistCalls("getMessages", s) :
        (HistReturned(i) /\ OnlyAdds(s, 0, i))
        => histTrace[HistCallEnd(i)].messages = AddedIn(s, 0, i)

\* Two batches, three messages, not all alike, were added to a session and
\* read back.
C8_Witness ==
    \E s \in Sessions : \E i \in HistCalls("getMessages", s) :
        /\ HistReturned(i)
        /\ OnlyAdds(s, 0, i)
        /\ Cardinality({ a \in HistCalls("addMessages", s) : a < i }) = 2
        /\ Len(histTrace[HistCallEnd(i)].messages) = 3
        /\ histTrace[HistCallEnd(i)].messages[1] # histTrace[HistCallEnd(i)].messages[2]
        /\ histTrace[HistCallEnd(i)].messages = AddedIn(s, 0, i)

\* C9: a getMessages whose read found no document returns the empty sequence
\* and throws nothing; a read that failed in any other way ends the call with
\* that very error thrown.
C9_GetMessagesErrors ==
    \A s \in Sessions : \A i \in HistCalls("getMessages", s) :
        \A k \in HistSettled(i, "get") :
            /\ histTrace[k].error.name = "DocumentNotFoundError"
               => /\ HistReturned(i)
                  /\ histTrace[HistCallEnd(i)].messages = << >>
                  /\ histTrace[HistCallEnd(i)].error = NoError
            /\ histTrace[k].error.name \notin {"none", "DocumentNotFoundError"}
               => /\ HistCallEnd(i) \in HistIdx
                  /\ histTrace[HistCallEnd(i)].ev = "throw"
                  /\ histTrace[HistCallEnd(i)].error = histTrace[k].error

\* One getMessages found no document and returned nothing, another one's read
\* timed out and the call threw that error.
C9_Witness ==
    \E s, t \in Sessions :
        \E i \in HistCalls("getMessages", s), j \in HistCalls("getMessages", t) :
            /\ \E k \in HistSettled(i, "get") :
                   histTrace[k].error.name = "DocumentNotFoundError"
            /\ HistReturned(i)
            /\ histTrace[HistCallEnd(i)].messages = << >>
            /\ \E k \in HistSettled(j, "get") :
                   /\ histTrace[k].error.name = "TimeoutError"
                   /\ HistCallEnd(j) \in HistIdx
                   /\ histTrace[HistCallEnd(j)].ev = "throw"
                   /\ histTrace[HistCallEnd(j)].error = histTrace[k].error

\* C10: a clear that found no document returns without an error.  After a
\* clear that returned the document is gone: a following getMessages returns
\* only what was added since (nothing, if nothing was), and following
\* addMessages calls leave a document holding only the messages added since.
C10_Clear ==
    \A s \in Sessions : \A c \in HistCalls("clear", s) :
        /\ \A k \in HistSettled(c, "remove") :
               histTrace[k].error.name = "DocumentNotFoundError" => HistReturned(c)
        /\ HistReturned(c)
           => /\ \A i \in HistCalls("getMessages", s) :
                    (i > c /\ HistReturned(i) /\ OnlyAdds(s, c, i))
                    => histTrace[HistCallEnd(i)].messages = AddedIn(s, c, i)
              /\ (SessionIdle(s) /\ OnlyAdds(s, c, Len(histTrace) + 1))
                 => LET added == AddedIn(s, c, Len(histTrace) + 1)
                        document == store[documentKey(s)]
                    IN  IF added = << >>
                        THEN document = NoDocument
                        ELSE /\ document.sessionId = s
                             /\ document.messages = mapChatMessagesToStoredMessages(added)

\* Messages were added to a session, the session was cleared, and other
\* messages were added: the document holds the latter only.
C10_Witness ==
    \E s \in Sessions : \E c \in HistCalls("clear", s) :
        \E a, b \in HistCalls("addMessages", s) :
            /\ a < c /\ HistReturned(a)
            /\ \E k \in HistSettled(c, "remove") : histTrace[k].error = NoError
            /\ HistReturned(c)
            /\ c < b /\ HistReturned(b)
            /\ histTrace[a].messages[1] # histTrace[b].messages[1]
            /\ SessionIdle(s)
            /\ store[documentKey(s)].messages = mapChatMessagesToStoredMessages(histTrace[b].messages)

-----------------------------------------------------------------------------
(* Claims C11 - C20 *)

\* The "acquire" entry of the call that made entry r.
AcquireOf(r) ==
    MaxOf({ i \in EventsOf("acquire") : i < r /\ trace[i].ctx = trace[r].ctx })
\* The "connect" entry of the connect() call that settled at entry j.
ConnectOf(j) ==
    MaxOf({ c \in EventsOf("connect") : c < j /\ trace[c].ctx = trace[j].ctx })
\* The entries at which connect() resolved to handle h.
OpenedAt(h) ==
    { j \in EventsOf("connectSettled") : trace[j].ok /\ trace[j].h = h }

\* C11 (credential binding): every handle connectToCouchbase returns was opened
\* by a connect() call whose arguments are the tuple getCredentials resolved to
\* inside the call that returns it, on a fresh connect and on a cache hit,
\* also when calls carrying different tuples overlap.
C11_CredentialBinding ==
    \A r \in EventsOf("return") :
        /\ Cardinality(OpenedAt(trace[r].h)) = 1
        /\ \A j \in OpenedAt(trace[r].h) :
              trace[ConnectOf(j)].cred = trace[AcquireOf(r)].cred

\* C11's case: a call given another tuple began and connected while a call was
\* suspended; both returned, and one more call returned a handle from the cache.
C11_Witness ==
    \E i, k \in EventsOf("acquire") :
        /\ trace[i].ctx # trace[k].ctx
        /\ trace[i].cred # trace[k].cred
        /\ i < k
        /\ k < CallEnd(i)
        /\ CallEnd(i) \in Idx /\ trace[CallEnd(i)].ev = "return"
        /\ CallEnd(k) \in Idx /\ trace[CallEnd(k)].ev = "return"
        /\ \E r \in EventsOf("return") :
              /\ r = AcquireOf(r) + 1
              /\ r > CallEnd(i) /\ r > CallEnd(k)

\* The description a connection error is to carry for a cause.
HintFor(cause) ==
    CASE cause.name = "UnambiguousTimeoutError" ->
            "Please ensure the database exists, is turned on, and the connection string is correct."
      [] cause.name = "AuthenticationFailureError" ->
            "Please check your username and password."
      [] OTHER -> ""
\* The connect() calls that rejected.
FailedConnects == { j \in EventsOf("connectSettled") : ~trace[j].ok }
\* The call whose connect() rejected at entry j threw, next, a
\* NodeOperationError with the classified description.
ThrowsClassified(j) ==
    /\ j + 1 \in Idx
    /\ trace[j + 1].ev = "throw"
    /\ trace[j + 1].ctx = trace[j].ctx
    /\ trace[j + 1].error.name = "NodeOperationError"
    /\ trace[j + 1].error.description = HintFor(trace[j].cause)

\* C12 as stated: the message is 'Could not connect to database: ' followed by
\* the cause's message, and nothing more.
C12_MessageWithoutFullStop ==
    \A j \in FailedConnects :
        /\ ThrowsClassified(j)
        /\ trace[j + 1].error.message =
              << "Could not connect to database: ", trace[j].cause.message >>

\* C12 (connect-failure classification), amended: when connect() rejects,
\* connectToCouchbase throws a NodeOperationError whose message is 'Could not
\* connect to database: ', the cause's message and a full stop, and whose
\* description is the connection-string hint for an unambiguous timeout, the
\* username/password hint for an authentication failure, and empty otherwise.
C12_ConnectFailureClassification ==
    \A j \in FailedConnects :
        /\ ThrowsClassified(j)
        /\ trace[j + 1].error.message =
              << "Could not connect to database: ", trace[j].cause.message, "." >>

\* C12's case: three connects failed, with an unambiguous timeout, an
\* authentication failure and an ambiguous timeout; the three errors thrown
\* carry the two hints and no hint.
C12_Witness ==
    \E a, b, c \in FailedConnects :
        /\ trace[a].cause.name = "UnambiguousTimeoutError"
        /\ trace[b].cause.name = "AuthenticationFailureError"
        /\ trace[c].cause.name = "TimeoutError"
        /\ trace[a + 1].error.description # ""
        /\ trace[b + 1].error.description # ""
        /\ trace[a + 1].error.description # trace[b + 1].error.description
        /\ trace[c + 1].error.description = ""
        /\ trace[c + 1].error.message = << "Could not connect to database: ", "Timeout", "." >>

\* An idle timer is scheduled.
TimerScheduled == pendingTimers # {}

\* C13 (ConnectionState invariant): whenever no call and no timer callback is
\* suspended, a handle is cached if and only if credentials are cached if and
\* only if an idle timer is scheduled.
C13_StateInvariant ==
    Quiescent =>
        /\ hasActiveConnection <=> cachedCredentials # NoCredentials
        /\ hasActiveConnection <=> TimerScheduled

\* C14 (full reset on connect failure): when a call ends by throwing the
\* connection error, no handle is cached, no credentials are cached and no
\* idle timer is left scheduled, whether the state was empty before the call
\* or the failed connect followed a credential change on a connected state.
C14_FullResetOnFailure ==
    (trace # << >> /\ trace[Len(trace)].ev = "throw") =>
        /\ ~hasActiveConnection
        /\ cachedCredentials = NoCredentials
        /\ ~TimerScheduled
        /\ idleTimeoutId = Undefined

\* The ConnectionState: the handle, the credentials, the timer and the time
\* of the last activity.
ConnectionState ==
    <<clusterInstance, cachedCredentials, idleTimeoutId, pendingTimers, lastActivityTime>>
\* A step in which a caller calls closeConnection().
CloseConnectionCalled ==
    /\ Len(trace') > Len(trace)
    /\ trace'[Len(trace) + 1].ev = "closeConnection"

\* C15 (idempotent close): closeConnection() called when no handle is cached
\* changes no part of the ConnectionState and does not invoke close(); so a
\* second closeConnection() in a row changes nothing and closes nothing.
C15_IdempotentClose ==
    [][(CloseConnectionCalled /\ ~hasActiveConnection) =>
          /\ ConnectionState' = ConnectionState
          /\ trace'[Len(trace) + 2].ev = "closeReturn"
          /\ Len(trace') = Len(trace) + 2]_vars

\* The entry that began the call or callback that made entry i.
CallStart(i) ==
    MaxOf({ k \in Idx : /\ k <= i
                        /\ trace[k].ctx = trace[i].ctx
                        /\ trace[k].ev \in {"acquire", "closeConnection", "timer"} })
\* The close() calls made by closeConnection() called by a caller, that settled.
CallerCloses ==
    { i \in EventsOf("closeSettled") :
        trace[i].ctx \in Callers /\ trace[CallStart(i)].ev = "closeConnection" }

\* The call or callback begun at entry k began with nothing else in flight:
\* every call and every callback begun before it had ended.
StartedAlone(k) ==
    \A j \in 1..(k - 1) :
        (trace[j].ev \in {"acquire", "closeConnection", "timer"} /\ trace[j].ctx # trace[k].ctx)
        => \E e \in (j + 1)..(k - 1) :
               /\ trace[e].ctx = trace[j].ctx
               /\ trace[e].ev \in Outcomes \cup {"closeReturn"}
\* The entry that begins the closeConnection() call a caller is suspended in.
PendingCloseConnection(p) ==
    MaxOf({ k \in EventsOf("closeConnection") : trace[k].ctx = p })

\* C16: closeConnection() called with a handle cached and nothing else in
\* flight has cancelled the idle timer when it invokes close() on the handle;
\* whether close() resolves or rejects, closeConnection() returns (it never
\* throws), and then no handle, no credentials and no timer are left and
\* lastActivityTime is 0.
C16_CloseConnection ==
    /\ \A p \in Callers :
          (pc[p] = "awaitCloseConnection" /\ StartedAlone(PendingCloseConnection(p))) =>
              /\ ~TimerScheduled
              /\ idleTimeoutId = Undefined
              /\ trace[PendingCloseConnection(p) + 1].ev = "close"
              /\ trace[PendingCloseConnection(p) + 1].h = clusterInstance
              /\ PendingCloseConnection(p) + 1 = Len(trace)
              /\ hasActiveConnection
    /\ \A i \in CallerCloses :
          StartedAlone(CallStart(i)) =>
              /\ i + 1 \in Idx
              /\ trace[i + 1].ev = "closeReturn"
              /\ trace[i + 1].ctx = trace[i].ctx
              /\ i = CallStart(i) + 2
              /\ i + 1 = Len(trace) =>
                    /\ ~hasActiveConnection
                    /\ cachedCredentials = NoCredentials
                    /\ ~TimerScheduled
                    /\ idleTimeoutId = Undefined
                    /\ lastActivityTime = 0

\* C16's case: a handle was returned, closeConnection() was called with nothing
\* else in flight, the handle's close() rejected and closeConnection() has
\* returned.
C16_Witness ==
    \E i \in CallerCloses :
        /\ StartedAlone(CallStart(i))
        /\ ~trace[i].ok
        /\ i + 1 = Len(trace)
        /\ trace[i + 1].ev = "closeReturn"
        /\ trace[i - 1].ev = "close"
        /\ \E r \in EventsOf("return") : r < i /\ trace[r].h = trace[i - 1].h
        /\ ~hasActiveConnection

\* A credential tuple with a field missing.
FieldMissing(cred) == \E f \in CredentialFields : cred[f] = Undefined
\* A sessionKey that is empty or blank.
Blank(sessionKey) == sessionKey.text = ""

\* C17 (input validation): a connectToCouchbase call given a tuple with a
\* missing connection string, username or password invokes neither close() nor
\* connect() and ends by throwing a validation error; and no call of the
\* history is made, so no storage operation issued, for an empty or blank
\* session key.
C17_InputValidation ==
    /\ \A i \in EventsOf("acquire") :
          FieldMissing(trace[i].cred) =>
              /\ CallEvents(i, "connect") = {}
              /\ CallEvents(i, "close") = {}
              /\ CallEnd(i) \in Idx =>
                    /\ trace[CallEnd(i)].ev = "throw"
                    /\ trace[CallEnd(i)].error.name = "ValidationError"
    /\ \A sessionKey \in SessionKeys :
          Blank(sessionKey) =>
              \A i \in HistIdx : histTrace[i].session # getSessionId(sessionKey)

\* The storage operations' entries of the history.
StorageEvents == { k \in HistIdx : histTrace[k].ev \in {"get", "mutateIn", "upsert", "remove"} }
\* Every error connectToCouchbase throws names its stage: a rejected connect()
\* is thrown as one NodeOperationError 'Could not connect to database: ...'
\* around the cause's message, and the missing handle as its own Error.
AcquireErrorsDescriptive ==
    /\ \A t \in EventsOf("throw") :
          /\ trace[t].error.name = "NodeOperationError"
          /\ trace[t].error.message[1] = "Could not connect to database: "
          /\ trace[t - 1].ev = "connectSettled"
          /\ trace[t - 1].ctx = trace[t].ctx
          /\ ~trace[t - 1].ok
          /\ trace[t].error.message[2] = trace[t - 1].cause.message
    /\ \A t \in EventsOf("throwUnavailable") : trace[t].error = UnavailableError
\* A storage operation that failed because the document is missing does not
\* end the call by a throw.
NotFoundAbsorbed ==
    \A k \in StorageEvents :
        (histTrace[k].error.name = "DocumentNotFoundError" /\ k + 1 \in HistIdx)
        => histTrace[k + 1].ev # "throw"

\* C18 as stated: no error of the storage layer reaches a caller of
\* getMessages, addMessages or clear as it is; what is thrown is another,
\* descriptive error.
C18_StorageErrorsWrapped ==
    /\ AcquireErrorsDescriptive
    /\ NotFoundAbsorbed
    /\ \A t \in HistIdx :
          histTrace[t].ev = "throw" =>
              \A k \in StorageEvents : histTrace[t].error # histTrace[k].error

\* C18 (error context), amended: a failure of connect reaches the caller of
\* connectToCouchbase as one NodeOperationError naming the stage; an error of
\* the storage layer other than document-not-found reaches the caller of
\* getMessages, addMessages or clear as that very error, with nothing added;
\* document-not-found is absorbed.
C18_ErrorPropagation ==
    /\ AcquireErrorsDescriptive
    /\ NotFoundAbsorbed
    /\ \A t \in HistIdx :
          histTrace[t].ev = "throw" =>
              /\ (t - 1) \in StorageEvents
              /\ histTrace[t - 1].ctx = histTrace[t].ctx
              /\ histTrace[t - 1].error.name \notin {"none", "DocumentNotFoundError"}
              /\ histTrace[t].error = histTrace[t - 1].error
    /\ \A k \in StorageEvents :
          histTrace[k].error.name \notin {"none", "DocumentNotFoundError"} =>
              /\ k + 1 \in HistIdx
              /\ histTrace[k + 1].ev = "throw"

\* C18's case: on a handle connectToCouchbase returned, an addMessages found no
\* document, fell back to the create, and threw the upsert's timeout; a
\* getMessages and a clear threw the timeouts of their get and remove.
C18_Witness ==
    /\ EventsOf("return") # {}
    /\ \E u, g, r \in StorageEvents :
          /\ histTrace[u].ev = "upsert"
          /\ histTrace[g].ev = "get"
          /\ histTrace[g - 1].ev = "getMessages"
          /\ histTrace[r].ev = "remove"
          /\ \A k \in {u, g, r} :
                /\ histTrace[k].error.name = "TimeoutError"
                /\ histTrace[k + 1].ev = "throw"
                /\ histTrace[k + 1].error = histTrace[k].error

\* An option is given by an object that has it with a value.
Given(object, key) == key \in DOMAIN object /\ object[key].defined
\* The per-call option when given, otherwise the createRetryFunction default
\* when given, otherwise the global default.
Resolved(key, global) ==
    IF Given(callOptions, key) THEN callOptions[key].value
    ELSE IF Given(defaultOptions, key) THEN defaultOptions[key].value
    ELSE global

\* C19 (policy resolution): withRetry runs with, field by field, the per-call
\* option when given, otherwise the createRetryFunction default when given,
\* otherwise the global default: 3 attempts, 1000 ms, multiplier 2, and the
\* predicate true of exactly the timeout and temporary-failure errors; an
\* error is retried only if the resolved predicate accepts it.
C19_PolicyResolution ==
    RetryCalled =>
        /\ maxAttempts = Resolved("maxAttempts", 3)
        /\ delayMs = Resolved("delayMs", 1000)
        /\ backoffMultiplier = Resolved("backoffMultiplier", 2)
        /\ isRetryable = Resolved("isRetryable", {"TimeoutError", "TemporaryFailureError"})
        /\ \A i \in 1..(operationCalls - 1) :
              operation[i].name \in Resolved("isRetryable", {"TimeoutError", "TemporaryFailureError"})

\* The storage operation of the given kind that settled within the call begun
\* at entry i, or 0.
SettledIn(i, kind) ==
    IF HistSettled(i, kind) = {} THEN 0 ELSE MinOf(HistSettled(i, kind))
\* The addMessages call begun at entry a found no document (mutateIn and the
\* fallback's get both rejected with document-not-found), created the document
\* and returned.
CreatedByFallback(a) ==
    /\ HistReturned(a)
    /\ SettledIn(a, "mutateIn") # 0
    /\ histTrace[SettledIn(a, "mutateIn")].error.name = "DocumentNotFoundError"
    /\ SettledIn(a, "get") # 0
    /\ histTrace[SettledIn(a, "get")].error.name = "DocumentNotFoundError"
    /\ SettledIn(a, "upsert") # 0
    /\ histTrace[SettledIn(a, "upsert")].error = NoError
\* Two addMessages calls of two callers on one session overlapped, both created
\* the document by the fallback, b's create after a's, and nothing was written
\* to the session since.
FirstWriteRace(a, b) ==
    /\ histTrace[a].ctx # histTrace[b].ctx
    /\ histTrace[a].session = histTrace[b].session
    /\ CreatedByFallback(a)
    /\ CreatedByFallback(b)
    /\ SettledIn(a, "upsert") < SettledIn(b, "upsert")
    /\ \A k \in StorageEvents :
          (k > SettledIn(b, "upsert") /\ histTrace[k].session = histTrace[b].session)
          => histTrace[k].error # NoError

\* C20 (first-write race): when two overlapping addMessages calls on a session
\* without a document both see the append fail with document-not-found and
\* both take the fallback, the later create overwrites the earlier one: both
\* calls return without error and the document holds the later creator's
\* messages alone.
C20_FirstWriteRace ==
    \A s \in Sessions : \A a, b \in HistCalls("addMessages", s) :
        FirstWriteRace(a, b) =>
            store[documentKey(s)].messages = mapChatMessagesToStoredMessages(histTrace[b].messages)

\* C20's case: the race happened between calls adding different messages, and
\* the first creator's message is in the document no more.
C20_Witness ==
    \E s \in Sessions : \E a, b \in HistCalls("addMessages", s) :
        /\ FirstWriteRace(a, b)
        /\ SessionIdle(s)
        /\ \A q \in HistConcCallers : histPc[q] = "idle"
        /\ \A i \in DOMAIN histTrace[b].messages : histTrace[b].messages[i] # histTrace[a].messages[1]
        /\ \A i \in DOMAIN store[documentKey(s)].messages :
              store[documentKey(s)].messages[i] #
                  mapChatMessagesToStoredMessages(histTrace[a].messages)[1]

-----------------------------------------------------------------------------
(* Claims C21 - C30 *)

\* The call that made entry k of the history.
HistCallOf(k) ==
    MaxOf({ i \in HistIdx : /\ i < k
                            /\ histTrace[i].ctx = histTrace[k].ctx
                            /\ histTrace[i].ev \in HistCallKinds })
\* The stored messages the mutateIn operations that resolved on session s
\* appended, up to entry hi, in the order the operations were applied.
RECURSIVE Appended(_, _)
Appended(s, hi) ==
    IF hi = 0 THEN << >>
    ELSE Appended(s, hi - 1) \o
         (IF /\ histTrace[hi].ev = "mutateIn"
             /\ histTrace[hi].session = s
             /\ histTrace[hi].error = NoError
          THEN mapChatMessagesToStoredMessages(histTrace[HistCallOf(hi)].messages)
          ELSE << >>)

\* C21 (atomic append): on a session whose document exists, an addMessages
\* call makes one storage operation, the mutateIn, and no read and no upsert;
\* a call that returned had its mutateIn resolve; and with calls overlapping
\* the document always holds the earlier messages followed by the batch of
\* every resolved mutateIn, each batch whole and in its own order.
C21_AtomicAppend ==
    \A s \in Sessions :
        EarlierStore[documentKey(s)] # NoDocument
        => /\ store[documentKey(s)].messages =
                  EarlierStore[documentKey(s)].messages \o Appended(s, Len(histTrace))
           /\ \A a \in HistCalls("addMessages", s) :
                 /\ HistSettled(a, "get") = {}
                 /\ HistSettled(a, "upsert") = {}
                 /\ Cardinality(HistSettled(a, "mutateIn")) <= 1
                 /\ HistReturned(a)
                    => /\ SettledIn(a, "mutateIn") # 0
                       /\ histTrace[SettledIn(a, "mutateIn")].error = NoError

\* C21's case: two addMessages calls with different batches overlapped on an
\* existing document, the one called later was applied first, both returned,
\* and the document holds the earlier messages and both batches.
C21_Witness ==
    \E s \in Sessions : \E a, b \in HistCalls("addMessages", s) :
        /\ EarlierStore[documentKey(s)] # NoDocument
        /\ a < b
        /\ HistReturned(a) /\ HistReturned(b)
        /\ SettledIn(b, "mutateIn") < SettledIn(a, "mutateIn")
        /\ histTrace[a].messages # histTrace[b].messages
        /\ Len(histTrace[a].messages) = MaxBatch
        /\ store[documentKey(s)].messages =
              EarlierStore[documentKey(s)].messages
              \o mapChatMessagesToStoredMessages(histTrace[b].messages)
              \o mapChatMessagesToStoredMessages(histTrace[a].messages)

\* The close() calls made by connectToCouchbase on a credential change, that
\* settled.
ReplacementCloses ==
    { k \in EventsOf("closeSettled") :
        trace[k].ctx \in Callers \cup ConcCallers /\ trace[CallStart(k)].ev = "acquire" }
\* The call whose replacement close() settled at entry k went on to one
\* connect() with the tuple it was given, and its outcome is that connect()'s:
\* the new handle returned, or the connection error of its cause thrown.
OutcomeIsTheConnects(k) ==
    LET i == CallStart(k)
        end == CallEnd(i)
    IN  /\ k + 1 \in Idx
        /\ trace[k + 1].ev = "connect"
        /\ trace[k + 1].ctx = trace[k].ctx
        /\ trace[k + 1].cred = trace[i].cred
        /\ CallEvents(i, "connect") = {k + 1}
        /\ k + 1 = Len(trace) => ~hasActiveConnection
        /\ end \in Idx
           => /\ CallEvents(i, "connectSettled") = {end - 1}
              /\ IF trace[end - 1].ok
                 THEN /\ trace[end].ev = "return"
                      /\ trace[end].h = trace[end - 1].h
                      /\ trace[end].h # trace[i].h
                 ELSE /\ trace[end].ev = "throw"
                      /\ trace[end].error = connectionError(trace[end - 1].cause)

\* C22 (close failure swallowed): when connectToCouchbase, given changed
\* credentials, closes the cached handle, then whether that close() resolves
\* or rejects the handle is dropped, the call makes exactly one connect() with
\* the new tuple, and the call's outcome is the outcome of that connect().
C22_CloseFailureSwallowed ==
    \A k \in ReplacementCloses : OutcomeIsTheConnects(k)

\* C22's case: a replacement close() rejected and the call returned a new
\* handle; another replacement close() rejected and the call threw the
\* connection error of its connect().
C22_Witness ==
    \E k, m \in ReplacementCloses :
        /\ ~trace[k].ok /\ ~trace[m].ok
        /\ CallEnd(CallStart(k)) \in Idx
        /\ trace[CallEnd(CallStart(k))].ev = "return"
        /\ trace[CallEnd(CallStart(k))].h # Undefined
        /\ CallEnd(CallStart(m)) \in Idx
        /\ trace[CallEnd(CallStart(m))].ev = "throw"
        /\ trace[CallEnd(CallStart(m))].error.name = "NodeOperationError"

\* A step in which connect() resolves.
ConnectSucceeds ==
    /\ Len(trace') > Len(trace)
    /\ trace'[Len(trace) + 1].ev = "connectSettled"
    /\ trace'[Len(trace) + 1].ok
\* A step in which a close() settles that was made by closeConnection() (called
\* by a caller or by a timer's callback) or by a connectToCouchbase call that
\* found a handle cached under credentials other than its own.
ClosedOrReplaced ==
    /\ Len(trace') > Len(trace)
    /\ trace'[Len(trace) + 1].ev = "closeSettled"
    /\ LET start == MaxOf({ i \in Idx : /\ trace[i].ctx = trace'[Len(trace) + 1].ctx
                                        /\ trace[i].ev \in {"acquire", "closeConnection", "timer"} })
       IN  \/ trace[start].ev \in {"closeConnection", "timer"}
           \/ /\ trace[start].ev = "acquire"
              /\ trace[start].h # Undefined
              /\ trace[start].cred # trace[start].cached
\* One caller is suspended in connect(), and no other caller has been in a
\* call since that caller's call began.
SoleConnectPending ==
    \E p \in Callers \cup ConcCallers :
        /\ pc[p] = "awaitConnect"
        /\ \A q \in (Callers \cup ConcCallers) \ {p} :
              /\ pc[q] = "idle"
              /\ \A k \in Idx :
                    trace[k].ctx = q
                    => k < MaxOf({ i \in EventsOf("acquire") : trace[i].ctx = p })

\* C23 (connection state machine): hasActiveConnection() turns true only in a
\* step in which a connect() made by connectToCouchbase resolves, and turns
\* false only when closeConnection(), a timer's callback or a credential change
\* drops the handle; after a call whose connect() was rejected has thrown it is
\* false, and it is false while a sole caller's connect() is pending.
C23_StateMachine ==
    [][/\ (~hasActiveConnection /\ hasActiveConnection') => ConnectSucceeds
       /\ (hasActiveConnection /\ ~hasActiveConnection') => ClosedOrReplaced
       /\ (trace' # trace /\ trace'[Len(trace')].ev = "throw") => ~hasActiveConnection'
       /\ SoleConnectPending' => ~hasActiveConnection']_vars

\* The caller whose call takes the step, and the operation that call is.
HistActors == { p \in HistContexts : histPc'[p] # histPc[p] \/ histCall'[p] # histCall[p] }
InGetMessages(p) == histPc[p] = "getMessages" \/ histPc'[p] = "getMessages"
InClear(p) == histPc[p] = "remove" \/ histPc'[p] = "remove"
InAddMessages(p) ==
    histPc[p] \in {"mutateIn", "fallbackGet", "upsert"} \/ histPc'[p] = "mutateIn"
\* The keys under which the step made a document where none was.
Created == { key \in DOMAIN store : store[key] = NoDocument /\ store'[key] # NoDocument }
\* The entries the step added to the history.
NewHistEntries == { k \in DOMAIN histTrace' : k > Len(histTrace) }

\* C24 (documents come from addMessages alone): a step that makes a document
\* where none was is a step of addMessages; no step of getMessages changes the
\* collection; no step of clear makes a document, and clear on a session
\* without a document changes nothing; and a step of any of the three
\* operations reads and changes only the document of its own session id.
C24_DocumentCreation ==
    [][\A p \in HistActors :
          /\ Created # {} => InAddMessages(p)
          /\ InGetMessages(p) => store' = store
          /\ InClear(p) =>
                /\ Created = {}
                /\ store[documentKey(histCall'[p].session)] = NoDocument => store' = store
          /\ \A key \in DOMAIN store :
                key.sessionId # histCall'[p].session => store'[key] = store[key]
          /\ \A k \in NewHistEntries : histTrace'[k].session = histCall'[p].session]_vars

\* C24's case: addMessages made the document of one session; getMessages and
\* clear on the other session, which has no document, both returned, and that
\* session still has none.
C24_Witness ==
    \E s, t \in Sessions :
        /\ s # t
        /\ \E a \in HistCalls("addMessages", s) : HistReturned(a)
        /\ store[documentKey(s)] # NoDocument
        /\ \E g \in HistCalls("getMessages", t) :
              /\ HistReturned(g)
              /\ histTrace[HistCallEnd(g)].messages = << >>
        /\ \E c \in HistCalls("clear", t) : HistReturned(c)
        /\ store[documentKey(t)] = NoDocument

\* The handles connect() has resolved to.
OpenedHandles == { trace[j].h : j \in { i \in EventsOf("connectSettled") : trace[i].ok } }
\* The handles close() has been invoked on.
ClosedHandles == { trace[c].h : c \in EventsOf("close") }

\* C25 (single active handle, no leak): every handle connect() has resolved to
\* is the cached handle or has had close() invoked on it, also when
\* connectToCouchbase calls overlap.
C25_NoLeak ==
    \A h \in OpenedHandles : h = clusterInstance \/ h \in ClosedHandles

\* C26: connectToCouchbase never returns a handle on which close() has been
\* invoked before, by closeConnection(), by a timer's callback or by another
\* call's credential change, however these interleave with the call.
C26_NoClosedHandleReturned ==
    \A r \in EventsOf("return") :
        \A c \in EventsOf("close") : c < r => trace[c].h # trace[r].h

\* A step in which a connectToCouchbase call returns a handle.
AcquireReturns ==
    /\ Len(trace') > Len(trace)
    /\ trace'[Len(trace')].ev = "return"

\* C27: with no call in flight and no handle cached (never connected, after
\* closeConnection(), after an idle eviction, after a failed connect)
\* getConnectionIdleTime() is 0; while a handle is cached it is the time passed
\* since the last connectToCouchbase call that returned: 0 when a call
\* returns, and growing with the clock from then on.
C27_IdleTime ==
    [][/\ (Quiescent' /\ ~hasActiveConnection') => getConnectionIdleTime' = 0
       /\ AcquireReturns => getConnectionIdleTime' = 0
       /\ (hasActiveConnection /\ hasActiveConnection' /\ ~AcquireReturns)
          => getConnectionIdleTime' = getConnectionIdleTime + (now' - now)]_vars

\* The connectToCouchbase calls that have ended.
EndedAcquires == { i \in EventsOf("acquire") : CallEnd(i) \in Idx }

\* C28 (the guard of line 154 is never taken): however connectToCouchbase
\* calls, closeConnection() calls and timer callbacks interleave, no call ends
\* with 'Cluster connection is not available.'; a call that ends either
\* returns a handle that is not undefined or throws the connection error of
\* its own connect(), which was rejected.
C28_GuardUnreachable ==
    /\ EventsOf("throwUnavailable") = {}
    /\ \A i \in EndedAcquires :
          LET end == CallEnd(i) IN
          \/ /\ trace[end].ev = "return"
             /\ trace[end].h # Undefined
          \/ /\ trace[end].ev = "throw"
             /\ trace[end - 1].ev = "connectSettled"
             /\ trace[end - 1].ctx = trace[i].ctx
             /\ ~trace[end - 1].ok
             /\ trace[end].error = connectionError(trace[end - 1].cause)

\* C28's case: a call returned a handle while a timer callback was suspended
\* in close(), and the callback then emptied the cache.
C28_Witness ==
    \E t \in EventsOf("timer") : \E r \in EventsOf("return") : \E c \in EventsOf("closeSettled") :
        /\ trace[c].ctx = trace[t].ctx
        /\ t < r /\ r < c
        /\ trace[r].h # Undefined
        /\ ~hasActiveConnection
        /\ Quiescent

\* The number of connectToCouchbase calls that returned before entry k: each
\* of them scheduled a timer, the n-th one timer n.
ReturnsBefore(k) == Cardinality({ r \in EventsOf("return") : r < k })

\* C29 (one idle timer): at most one timer is pending at any time, and it is
\* the one idleTimeoutId names; closeConnection() leaves none pending when it
\* goes on to close() or to return; and a timer that fires is the one the last
\* returned connectToCouchbase call scheduled, so a timer superseded by a later
\* call never fires.
C29_SingleTimer ==
    /\ Cardinality(pendingTimers) <= 1
    /\ \A t \in pendingTimers : t.id = idleTimeoutId
    /\ (Len(trace) >= 2 /\ trace[Len(trace) - 1].ev \in {"closeConnection", "timer"})
       => pendingTimers = {}
    /\ \A k \in EventsOf("timer") : trace[k].ctx = TimerCtx(ReturnsBefore(k))

\* C29's case: a second connectToCouchbase call returned while the first
\* call's timer was pending; the first timer's delay has passed and it has not
\* fired, the second timer has.
C29_Witness ==
    \E k \in EventsOf("timer") :
        /\ ReturnsBefore(k) = 2
        /\ trace[k].ctx = TimerCtx(2)
        /\ \A j \in EventsOf("timer") : trace[j].ctx # TimerCtx(1)
        /\ \E r, q \in EventsOf("return") : r < q /\ q < k /\ trace[r].ctx # trace[q].ctx
        /\ pendingTimers = {}

\* C30: for every options object withRetry accepts, operation is invoked at
\* least once and at most maxAttempts times, and withRetry ends with the value
\* an invocation of operation resolved to or with the error one rejected with:
\* the throw after the loop (line 352) is never reached.
C30_LoopAlwaysEntered ==
    RetryEnded =>
        /\ operationCalls >= 1
        /\ operationCalls <= maxAttempts
        /\ outcome = operation[operationCalls]
        /\ retryPc = "returned" <=> outcome.ok

====
